---- MODULE Spec2Model ----
(***************************************************************************)
(* A model of ree-path-searcher: the candidate expander and prober        *)
(* (searcher/suffix.rs), the archive hash index (pak.rs), the resolution  *)
(* cache and the parallel drivers (searcher.rs) and the merge and export  *)
(* of the command-line front end (main.rs).                               *)
(*                                                                         *)
(* Text is a sequence of character codes (a Rust String of ASCII text is  *)
(* the sequence of its bytes), so that formatting, searching, comparing   *)
(* and case folding are computed as the code computes them.               *)
(***************************************************************************)
EXTENDS Integers, Sequences, FiniteSets, TLC

VARIABLES
    \* the build and the PathSearcher
    cargo_features,  \* cargo features the crate was built with
    searcher_config, \* PathSearcher.config
    pak_collection,  \* PathSearcher.pak_collection: None or Some(PakCollection)
    filter,          \* PathSearcher.filter: "DefaultFilter" or "None"
    path_cache,      \* PathSearcher.path_cache: raw path -> None | Some(matches)
    \* the resolver harness
    r_pc,            \* "off" | "call" | "done"
    r_path,          \* the raw path handed to find_path_i18n
    r_result,        \* what find_path_i18n returned
    \* main.rs run()
    app_dmp,         \* AppConfig.dmp: the dump files
    main_pc,         \* "off" | "dump" | "pak" | "export" | "done" | "failed"
    dmp_index,       \* index into app_dmp of the dump being, or next to be, searched
    all_results,     \* run()'s accumulated SearchResult
    exported,        \* the three output files, None until written
    \* one search_memory_dump_with_progress / search_pak_files_with_progress call
    search_pc,       \* "idle" | "dump" | "pak"
    pak_index,       \* index of the archive being extracted (pak search)
    tasks,           \* the parallel tasks of the current batch, one per block or entry
    all_paths,       \* the pak search's shared Mutex<Vec<(path, matches)>>
    unk_paths,       \* the call's Mutex<FxHashSet<String>>
    seen_hashes,     \* the per-archive guard set of the pak search
    returned,        \* the SearchResults returned so far, in call order
    processed,       \* the call's AtomicU64 of completed blocks or entries
    reported,        \* per search, in call order: the (current, total) pairs handed
                     \* to the progress callback, in the order of the calls
    \* bookkeeping of the calls made on shared data
    resolve_calls,   \* raw path -> number of find_path_i18n calls made for it
    cache_inserts,   \* raw path -> number of path_cache.insert calls made for it
    validated,       \* per search, in call order: the candidates that passed validate_path
    admitted,        \* <<hash, archive index>> -> number of times the pak filter admitted it
    \* the harness of the pure functions and of PathComponents
    fn_pc,           \* "off" | "call" | "done"
    fn_input,        \* the argument of the function under study
    fn_output,       \* what it returned; for PathComponents, the object
    fn_log           \* the calls made on the object, in order

searcher_vars == <<cargo_features, searcher_config, pak_collection, filter>>
r_vars == <<r_pc, r_path, r_result>>
main_vars == <<app_dmp, main_pc, dmp_index, all_results, exported>>
search_vars == <<search_pc, pak_index, tasks, all_paths, unk_paths, seen_hashes, returned>>
call_vars == <<resolve_calls, cache_inserts, admitted>>
progress_vars == <<processed, reported>>

fn_vars == <<fn_pc, fn_input, fn_output, fn_log>>

vars == <<searcher_vars, path_cache, r_vars, main_vars, search_vars, call_vars, validated,
          progress_vars, fn_vars>>

----------------------------------------------------------------------------
(* Text constants *)

natives_STM == <<110, 97, 116, 105, 118, 101, 115, 47, 83, 84, 77, 47>>  \* "natives/STM/"
natives_NSW == <<110, 97, 116, 105, 118, 101, 115, 47, 78, 83, 87, 47>>  \* "natives/NSW/"
natives_MSG == <<110, 97, 116, 105, 118, 101, 115, 47, 77, 83, 71, 47>>  \* "natives/MSG/"
streaming_ == <<115, 116, 114, 101, 97, 109, 105, 110, 103, 47>>        \* "streaming/"
Dot == <<46>>                   \* "."
X64 == <<88, 54, 52>>           \* "X64"
STM == <<83, 84, 77>>           \* "STM"
NSW == <<78, 83, 87>>           \* "NSW"
MSG == <<77, 83, 71>>           \* "MSG"
Ja == <<74, 97>>                \* "Ja"
En == <<69, 110>>               \* "En"
tex == <<116, 101, 120>>        \* "tex"
user == <<117, 115, 101, 114>>  \* "user"

----------------------------------------------------------------------------
(* Option and Result values *)

None == [some |-> FALSE]
Some(v) == [some |-> TRUE, value |-> v]

----------------------------------------------------------------------------
(* Text helpers *)

\* u8::to_ascii_lowercase
to_ascii_lowercase(c) == IF c >= 65 /\ c <= 90 THEN c + 32 ELSE c

\* the decimal text of a u32, as format!("{suffix}") writes it
RECURSIVE display_u32(_)
display_u32(n) ==
    IF n < 10 THEN <<48 + n>> ELSE display_u32(n \div 10) \o <<48 + (n % 10)>>

\* str::find(pattern): the byte offset of the first occurrence, if any
str_find(haystack, needle) ==
    LET hits == {i \in 0..(Len(haystack) - Len(needle)) :
                    SubSeq(haystack, i + 1, i + Len(needle)) = needle}
    IN IF hits = {} THEN None
       ELSE Some(CHOOSE i \in hits : \A j \in hits : i <= j)

\* str::rfind('.') for a one-character pattern c
str_rfind(s, c) ==
    LET hits == {i \in 0..(Len(s) - 1) : s[i + 1] = c}
    IN IF hits = {} THEN None
       ELSE Some(CHOOSE i \in hits : \A j \in hits : i >= j)

\* String::insert_str(pos, text)
insert_str(s, pos, text) == SubSeq(s, 1, pos) \o text \o SubSeq(s, pos + 1, Len(s))

----------------------------------------------------------------------------
(* pak.rs: the archive collection and its hash index *)

\* The 64-bit key of a path.  The key is built from the hashes of the
\* lower-cased and of the upper-cased UTF-16 text, so it identifies exactly
\* the paths that differ in ASCII case only; the model's key is the
\* case-folded text.
hash_mixed(path) == [i \in 1..Len(path) |-> to_ascii_lowercase(path[i])]

\* an index in which the first archive that holds a hash keeps it
RECURSIVE index_entries_first_wins(_, _, _, _)
index_entries_first_wins(readers, index, entry_index, path_hashes) ==
    IF index > Len(readers) THEN path_hashes
    ELSE IF entry_index > Len(readers[index])
         THEN index_entries_first_wins(readers, index + 1, 1, path_hashes)
         ELSE LET h == readers[index][entry_index].hash
                  file_index == [archive_index |-> index - 1,
                                 entry_index |-> entry_index - 1]
                  inserted == [k \in DOMAIN path_hashes \cup {h} |->
                                  IF k \in DOMAIN path_hashes THEN path_hashes[k]
                                  ELSE file_index]
              IN index_entries_first_wins(readers, index, entry_index + 1, inserted)

\* One step of the two loops of from_readers: entry `entry_index` of archive
\* `index` overwrites whatever the map held for its hash.
RECURSIVE index_entries(_, _, _, _)
index_entries(readers, index, entry_index, path_hashes) ==
    IF index > Len(readers) THEN path_hashes
    ELSE IF entry_index > Len(readers[index])
         THEN index_entries(readers, index + 1, 1, path_hashes)
         ELSE LET h == readers[index][entry_index].hash
                  file_index == [archive_index |-> index - 1,
                                 entry_index |-> entry_index - 1]
                  inserted == [k \in DOMAIN path_hashes \cup {h} |->
                                  IF k = h THEN file_index ELSE path_hashes[k]]
              IN index_entries(readers, index, entry_index + 1, inserted)

\* PakCollection::from_readers
from_readers(readers) ==
    [path_hashes |-> index_entries(readers, 1, 1, <<>>),
     pak_readers |-> readers]

\* PakCollection::contains_path
contains_path(pak, path) == hash_mixed(path) \in DOMAIN pak.path_hashes

----------------------------------------------------------------------------
(* config.rs *)

\* PathSearcherConfig::suffix_versions
suffix_versions(config, extension) ==
    IF extension \in DOMAIN config.suffix_map
    THEN Some(config.suffix_map[extension])
    ELSE None

----------------------------------------------------------------------------
(* path_components.rs: the accessors find_path_i18n reads *)

\* PathComponents::extension, on the raw path
extension(raw) ==
    LET dot == str_rfind(raw, 46)
    IN IF dot.some THEN Some(SubSeq(raw, dot.value + 2, Len(raw))) ELSE None

----------------------------------------------------------------------------
(* searcher/suffix.rs: find_path_i18n *)

I18nPakFileInfo(full_path) == [full_path |-> full_path]

\* the full_path fields of a list of infos
PathsOf(list) == [i \in 1..Len(list) |-> list[i].full_path]

\* the array full_paths built for one version
full_paths(features, path, suffix) ==
    LET v == display_u32(suffix)
    IN <<natives_STM \o path \o Dot \o v,
         natives_STM \o path \o Dot \o v \o Dot \o X64,
         natives_STM \o path \o Dot \o v \o Dot \o STM>>
       \o (IF "nsw" \in features
           THEN <<natives_NSW \o path \o Dot \o v,
                  natives_NSW \o path \o Dot \o v \o Dot \o NSW>>
           ELSE <<>>)
       \o (IF "msg" \in features
           THEN <<natives_MSG \o path \o Dot \o v,
                  natives_MSG \o path \o Dot \o v \o Dot \o X64,
                  natives_MSG \o path \o Dot \o v \o Dot \o MSG>>
           ELSE <<>>)

\* the inner loop over config.languages() for one base path, from language i
RECURSIVE probe_languages(_, _, _, _)
probe_languages(pak, languages, full_path, i) ==
    IF i > Len(languages) THEN [result |-> <<>>, probed |-> <<>>]
    ELSE LET with_language == full_path \o Dot \o languages[i]
             rest == probe_languages(pak, languages, full_path, i + 1)
         IN [result |-> (IF contains_path(pak, with_language)
                         THEN <<I18nPakFileInfo(with_language)>>
                         ELSE <<>>) \o rest.result,
             probed |-> <<with_language>> \o rest.probed]

\* a prober that reports the base path without asking the archive
probe_full_path_unchecked(pak, config, full_path) ==
    LET langs == probe_languages(pak, config.languages, full_path, 1)
    IN [result |-> <<I18nPakFileInfo(full_path)>> \o langs.result,
        probed |-> <<full_path>> \o langs.probed]

\* a prober that reports the language variants before the base path
probe_full_path_languages_first(pak, config, full_path) ==
    LET langs == probe_languages(pak, config.languages, full_path, 1)
    IN [result |-> langs.result \o (IF contains_path(pak, full_path)
                                    THEN <<I18nPakFileInfo(full_path)>>
                                    ELSE <<>>),
        probed |-> langs.probed \o <<full_path>>]

\* the body of `for full_path in &full_paths`: the base path, then its languages
probe_full_path(pak, config, full_path) ==
    LET langs == probe_languages(pak, config.languages, full_path, 1)
    IN [result |-> (IF contains_path(pak, full_path)
                    THEN <<I18nPakFileInfo(full_path)>>
                    ELSE <<>>) \o langs.result,
        probed |-> <<full_path>> \o langs.probed]

\* `for full_path in &full_paths`, from index i
RECURSIVE probe_full_paths(_, _, _, _)
probe_full_paths(pak, config, fps, i) ==
    IF i > Len(fps) THEN [result |-> <<>>, probed |-> <<>>]
    ELSE LET here == probe_full_path(pak, config, fps[i])
             rest == probe_full_paths(pak, config, fps, i + 1)
         IN [result |-> here.result \o rest.result,
             probed |-> here.probed \o rest.probed]

\* an insertion offset that knows the prefix natives/STM/ only
streaming_pos_hard_coded(prefixes, full_path, i) ==
    LET prefix_pos == str_find(full_path, natives_STM)
    IN IF prefix_pos.some THEN prefix_pos.value + Len(natives_STM) ELSE 0

\* `for prefix in config.prefixes()`: the insertion offset, 0 when none occurs
RECURSIVE streaming_pos(_, _, _)
streaming_pos(prefixes, full_path, i) ==
    IF i > Len(prefixes) THEN 0
    ELSE LET prefix_pos == str_find(full_path, prefixes[i])
         IN IF prefix_pos.some
            THEN prefix_pos.value + Len(prefixes[i])
            ELSE streaming_pos(prefixes, full_path, i + 1)

\* `for info in &result`: the streaming overlays, from hit i
RECURSIVE streaming_result(_, _, _, _)
streaming_result(pak, config, result, i) ==
    IF i > Len(result) THEN [result |-> <<>>, probed |-> <<>>]
    ELSE LET pos == streaming_pos(config.prefixes, result[i].full_path, 1)
             streaming_path == insert_str(result[i].full_path, pos, streaming_)
             rest == streaming_result(pak, config, result, i + 1)
         IN IF pos > 0
            THEN [result |-> (IF contains_path(pak, streaming_path)
                              THEN <<I18nPakFileInfo(streaming_path)>>
                              ELSE <<>>) \o rest.result,
                  probed |-> <<streaming_path>> \o rest.probed]
            ELSE rest

\* a version loop that does not stop at the first version with a hit
RECURSIVE find_in_all_versions(_, _, _, _, _, _)
find_in_all_versions(pak, config, features, path, versions, i) ==
    IF i < 1 THEN [ok |-> TRUE, list |-> <<>>, probed |-> <<>>]
    ELSE LET hits == probe_full_paths(pak, config,
                                      full_paths(features, path, versions[i]), 1)
             older == find_in_all_versions(pak, config, features, path, versions, i - 1)
         IN [ok |-> TRUE,
             list |-> hits.result \o older.list,
             probed |-> hits.probed \o older.probed]

\* `for suffix in suffix.iter().rev()`, at index i of the version list
RECURSIVE find_in_versions(_, _, _, _, _, _)
find_in_versions(pak, config, features, path, versions, i) ==
    IF i < 1 THEN [ok |-> TRUE, list |-> <<>>, probed |-> <<>>]
    ELSE LET hits == probe_full_paths(pak, config,
                                      full_paths(features, path, versions[i]), 1)
         IN IF hits.result # <<>>
            THEN LET overlay == streaming_result(pak, config, hits.result, 1)
                 IN [ok |-> TRUE,
                     list |-> hits.result \o overlay.result,
                     probed |-> hits.probed \o overlay.probed]
            ELSE LET older == find_in_versions(pak, config, features, path,
                                               versions, i - 1)
                 IN [ok |-> older.ok,
                     list |-> older.list,
                     probed |-> hits.probed \o older.probed]

\* a resolver that fails when the newest version of the extension has no hit
find_path_i18n_newest_or_fail(pak, config, features, path) ==
    LET ext == extension(path)
        failed == [ok |-> FALSE, list |-> <<>>, probed |-> <<>>]
    IN IF ~ext.some THEN failed
       ELSE LET suffix == suffix_versions(config, ext.value)
            IN IF ~suffix.some THEN failed
               ELSE LET newest == find_in_versions(pak, config, features, path,
                                                   <<suffix.value[Len(suffix.value)]>>, 1)
                    IN IF newest.list = <<>> THEN failed ELSE newest

\* find_path_i18n: ok = FALSE is the Err return; probed lists, in call order,
\* every path handed to contains_path
find_path_i18n(pak, config, features, path) ==
    LET ext == extension(path)
    IN IF ~ext.some THEN [ok |-> FALSE, list |-> <<>>, probed |-> <<>>]
       ELSE LET suffix == suffix_versions(config, ext.value)
            IN IF ~suffix.some THEN [ok |-> FALSE, list |-> <<>>, probed |-> <<>>]
               ELSE find_in_versions(pak, config, features, path,
                                     suffix.value, Len(suffix.value))

----------------------------------------------------------------------------
(* utils.rs and searcher/filter.rs *)

Min(a, b) == IF a <= b THEN a ELSE b

\* string_from_utf16_bytes: the text of a little-endian UTF-16 slice; None for
\* a slice of fewer than 2 or of an odd number of bytes, or when
\* String::from_utf16 fails (a code unit in the surrogate range that is not
\* part of a pair; the slices the scanner decodes hold no pair).
string_from_utf16_bytes(slice) ==
    IF Len(slice) < 2 \/ Len(slice) % 2 # 0 THEN None
    ELSE LET u16_slice == [i \in 1..(Len(slice) \div 2) |->
                              slice[2 * i - 1] + 256 * slice[2 * i]]
         IN IF \E i \in 1..Len(u16_slice) : u16_slice[i] >= 55296 /\ u16_slice[i] <= 57343
            THEN None
            ELSE Some(u16_slice)

\* u32::from_le_bytes of the four bytes that start at offset `at`
u32_from_le_bytes(data, at) ==
    data[at + 1] + 256 * data[at + 2] + 65536 * data[at + 3] + 16777216 * data[at + 4]

\* a format check that reads the first four bytes only
check_skip_format_lower_only(magic) ==
    u32_from_le_bytes(magic, 0) \in {5784916, 1145588546, 1263553345}

\* check_skip_format
check_skip_format(magic) ==
    LET magic_lower == u32_from_le_bytes(magic, 0)
        magic_upper == u32_from_le_bytes(magic, 4)
    IN \/ magic_lower \in {5784916, 1145588546, 1263553345}  \* 0x584554, 0x44484B42, 0x4B504B41
       \/ magic_upper = 1196641607                           \* 0x47534D47

\* DefaultFilter::should_skip_file
DefaultFilter_should_skip_file(data) ==
    IF Len(data) < 8 THEN TRUE
    ELSE check_skip_format(SubSeq(data, 1, 8))

\* PathSearcher::should_skip_file
should_skip_file(self_filter, data) ==
    IF self_filter = "DefaultFilter" THEN DefaultFilter_should_skip_file(data) ELSE FALSE

----------------------------------------------------------------------------
(* searcher.rs: the scanner of search_memory *)

\* accept_char
accept_char(c) ==
    IF c = 32 THEN TRUE
    ELSE IF ~(c >= 33 /\ c <= 126) THEN FALSE
    ELSE IF c \in {34, 42, 92, 58, 60, 62, 63, 124} THEN FALSE   \* " * \ : < > ? |
    ELSE TRUE

\* a validator that accepts every text
validate_path_accept_all(path) == TRUE

\* validate_path
validate_path(path) ==
    IF Len(path) < 3 THEN FALSE
    ELSE LET slash == str_rfind(path, 47)
         IN IF ~slash.some THEN FALSE
            ELSE LET tail == SubSeq(path, slash.value + 2, Len(path))
                     dot_pos == str_find(tail, Dot)
                 IN IF ~dot_pos.some THEN FALSE
                    ELSE dot_pos.value > 0 /\ dot_pos.value < Len(tail) - 1

\* memchr::memmem::find(&memory[pos..], &SLASH_U16): offset relative to pos
memmem_find_slash(memory, pos) ==
    LET hits == {i \in 0..(Len(memory) - pos - 2) :
                    memory[pos + i + 1] = 47 /\ memory[pos + i + 2] = 0}
    IN IF hits = {} THEN None
       ELSE Some(CHOOSE i \in hits : \A j \in hits : i <= j)

\* the first inner loop: extend to the left over (accepted, 0) byte pairs
RECURSIVE extend_begin(_, _)
extend_begin(memory, begin) ==
    IF begin < 2 THEN begin
    ELSE LET prior == begin - 2
         IN IF ~accept_char(memory[prior + 1]) THEN begin
            ELSE IF memory[prior + 2] # 0 THEN begin
            ELSE extend_begin(memory, prior)

\* a right extension that stops after one pair
extend_end_one_pair(memory, end) ==
    IF end >= Len(memory) - 1 THEN end
    ELSE IF ~accept_char(memory[end + 1]) THEN end
    ELSE IF memory[end + 2] # 0 THEN end
    ELSE end + 2

\* the second inner loop: extend to the right over (accepted, 0) byte pairs
RECURSIVE extend_end(_, _)
extend_end(memory, end) ==
    IF end >= Len(memory) - 1 THEN end
    ELSE LET next == end
         IN IF ~accept_char(memory[next + 1]) THEN end
            ELSE IF memory[next + 2] # 0 THEN end
            ELSE extend_end(memory, next + 2)

\* an iteration that resumes the search at the seed it has just found
scan_seed_resuming_at_seed(memory, pos) ==
    LET found == memmem_find_slash(memory, pos)
    IN IF ~found.some THEN [kind |-> "end", pos |-> pos, path |-> <<>>]
       ELSE [kind |-> "continue", pos |-> found.value + pos, path |-> <<>>]

\* an iteration that never moves the cursor past the pair behind the seed
scan_seed_resuming_behind_seed(memory, pos) ==
    LET found == memmem_find_slash(memory, pos)
    IN IF ~found.some THEN [kind |-> "end", pos |-> pos, path |-> <<>>]
       ELSE
       LET slash_pos == found.value + pos
           pos1 == Min(slash_pos + 2, Len(memory))
           begin == extend_begin(memory, slash_pos)
       IN IF begin = slash_pos THEN [kind |-> "continue", pos |-> pos1, path |-> <<>>]
          ELSE
          LET end == extend_end(memory, slash_pos + 2)
              decoded == string_from_utf16_bytes(SubSeq(memory, begin + 1, end))
          IN IF ~decoded.some THEN [kind |-> "continue", pos |-> pos1, path |-> <<>>]
             ELSE IF ~validate_path(decoded.value)
                  THEN [kind |-> "continue", pos |-> pos1, path |-> <<>>]
                  ELSE [kind |-> "path", pos |-> pos1, path |-> decoded.value]

\* one iteration of `while let Some(slash_pos) = find(..)` up to the point
\* where the candidate has passed validate_path: kind "end" when no seed is
\* left, "continue" when the seed or the candidate is dropped, "path" when
\* `path` goes on to be resolved; pos is the cursor the iteration leaves.
scan_seed(memory, pos) ==
    LET found == memmem_find_slash(memory, pos)
    IN IF ~found.some THEN [kind |-> "end", pos |-> pos, path |-> <<>>]
       ELSE
       LET slash_pos == found.value + pos
           pos1 == Min(slash_pos + 2, Len(memory))
           begin == extend_begin(memory, slash_pos)
       IN IF begin = slash_pos THEN [kind |-> "continue", pos |-> pos1, path |-> <<>>]
          ELSE
          LET end == extend_end(memory, slash_pos + 2)
          IN IF end = slash_pos THEN [kind |-> "continue", pos |-> pos1, path |-> <<>>]
             ELSE
             LET pos2 == Min(end + 2, Len(memory))
                 decoded == string_from_utf16_bytes(SubSeq(memory, begin + 1, end))
             IN IF ~decoded.some THEN [kind |-> "continue", pos |-> pos2, path |-> <<>>]
                ELSE IF ~validate_path(decoded.value)
                     THEN [kind |-> "continue", pos |-> pos2, path |-> <<>>]
                     ELSE [kind |-> "path", pos |-> pos2, path |-> decoded.value]

\* the offsets of memory the first inner loop reads for the seed at slash_pos:
\* the pairs it steps over, and what it reads of the pair it stops at
begin_reads(memory, slash_pos) ==
    LET begin == extend_begin(memory, slash_pos)
    IN (begin..(slash_pos - 1))
       \cup (IF begin < 2 THEN {}
             ELSE IF ~accept_char(memory[begin - 2 + 1]) THEN {begin - 2}
             ELSE {begin - 2, begin - 1})

\* the offsets of memory the second inner loop reads for the seed at slash_pos
end_reads(memory, slash_pos) ==
    LET end == extend_end(memory, slash_pos + 2)
    IN ((slash_pos + 2)..(end - 1))
       \cup (IF end >= Len(memory) - 1 THEN {}
             ELSE IF ~accept_char(memory[end + 1]) THEN {end}
             ELSE {end, end + 1})

\* the iterations from cursor pos up to the next candidate that passes
\* validate_path, or to the end of the loop
RECURSIVE next_candidate(_, _)
next_candidate(memory, pos) ==
    LET it == scan_seed(memory, pos)
    IN IF it.kind = "continue" THEN next_candidate(memory, it.pos) ELSE it

\* search_memory of a PathSearcher without archives, from cursor pos: every
\* candidate that passes validate_path is pushed with an empty match list
RECURSIVE search_memory_no_pak(_, _)
search_memory_no_pak(memory, pos) ==
    LET it == next_candidate(memory, pos)
    IN IF it.kind = "end" THEN <<>>
       ELSE << <<it.path, <<>> >> >> \o search_memory_no_pak(memory, it.pos)

----------------------------------------------------------------------------
(* searcher.rs and main.rs: ordering of the found paths *)

\* str::cmp(p, q) = Less: byte-wise lexicographic order
RECURSIVE str_lt(_, _)
str_lt(p, q) ==
    IF q = <<>> THEN FALSE
    ELSE IF p = <<>> THEN TRUE
    ELSE IF p[1] # q[1] THEN p[1] < q[1]
    ELSE str_lt(Tail(p), Tail(q))

\* found-path entries are pairs <<raw path, matches>>
RawOf(entry) == entry[1]
MatchesOf(entry) == entry[2]

\* insertion of x behind every element that is not greater: a stable step
RECURSIVE insert_stable(_, _)
insert_stable(sorted, x) ==
    IF sorted = <<>> THEN <<x>>
    ELSE IF str_lt(RawOf(x), RawOf(sorted[1])) THEN <<x>> \o sorted
    ELSE <<sorted[1]>> \o insert_stable(Tail(sorted), x)

\* no sort: the list as it was collected
sort_by_keeping_order(list) == list

\* Vec::sort_by(|(p, _), (q, _)| p.cmp(q)): a stable sort by raw path
RECURSIVE sort_by(_)
sort_by(list) ==
    IF list = <<>> THEN <<>>
    ELSE insert_stable(sort_by(SubSeq(list, 1, Len(list) - 1)), list[Len(list)])

\* a dedup that removes nothing
dedup_keep_all(list) == list

\* Vec::dedup_by(|(p, _), (q, _)| p == q): of consecutive entries with the
\* same raw path the first is kept
RECURSIVE dedup_by(_)
dedup_by(list) ==
    IF Len(list) < 2 THEN list
    ELSE LET init == dedup_by(SubSeq(list, 1, Len(list) - 1))
         IN IF RawOf(list[Len(list)]) = RawOf(init[Len(init)])
            THEN init
            ELSE Append(init, list[Len(list)])

\* the orders of a set of entries (each entry once)
RECURSIVE orders_of(_)
orders_of(idx) ==
    IF idx = {} THEN {<<>>}
    ELSE UNION {{<<i>> \o o : o \in orders_of(idx \ {i})} : i \in idx}

\* Vec::sort_unstable_by(|(p, _), (q, _)| p.cmp(q)): every ascending order of
\* the list is a possible outcome; entries with equal raw paths may come out
\* in any order
RECURSIVE sort_unstable_by(_)
sort_unstable_by(list) ==
    IF list = <<>> THEN {<<>>}
    ELSE LET least == CHOOSE i \in 1..Len(list) :
                          \A j \in 1..Len(list) : ~str_lt(RawOf(list[j]), RawOf(list[i]))
             group == {i \in 1..Len(list) : RawOf(list[i]) = RawOf(list[least])}
             keep(i) == i \notin group
             rest == [k \in 1..Len(list) |-> k]
             others == SelectSeq(rest, keep)
             tail == sort_unstable_by([k \in 1..Len(others) |-> list[others[k]]])
         IN {[k \in 1..Len(o) |-> list[o[k]]] \o t : o \in orders_of(group), t \in tail}

----------------------------------------------------------------------------
(* searcher.rs: the memory-dump adapter, and what pak.rs offers the pak search *)

\* memory.sort_by_key(|memory| memory.base_address): a stable sort
RECURSIVE insert_by_base(_, _)
insert_by_base(sorted, piece) ==
    IF sorted = <<>> THEN <<piece>>
    ELSE IF piece.base_address < sorted[1].base_address THEN <<piece>> \o sorted
    ELSE <<sorted[1]>> \o insert_by_base(Tail(sorted), piece)

RECURSIVE sort_by_base(_)
sort_by_base(memory) ==
    IF memory = <<>> THEN <<>>
    ELSE insert_by_base(sort_by_base(SubSeq(memory, 1, Len(memory) - 1)), memory[Len(memory)])

\* `for piece in memory`: a piece that starts where the last block ends is
\* appended to it, any other piece opens a block
RECURSIVE coalesce(_, _, _)
coalesce(memory, i, memory_blocks) ==
    IF i > Len(memory) THEN memory_blocks
    ELSE LET piece == memory[i]
             n == Len(memory_blocks)
         IN IF n > 0 /\ memory_blocks[n].base + memory_blocks[n].len = piece.base_address
            THEN coalesce(memory, i + 1,
                          [memory_blocks EXCEPT ![n] =
                              [base |-> @.base,
                               len |-> @.len + Len(piece.bytes),
                               data |-> @.data \o piece.bytes]])
            ELSE coalesce(memory, i + 1,
                          Append(memory_blocks,
                                 [base |-> piece.base_address,
                                  len |-> Len(piece.bytes),
                                  data |-> piece.bytes]))

\* the memory_blocks of a dump
memory_blocks_of(dump) == coalesce(sort_by_base(dump), 1, <<>>)

\* PakCollection::unique_entry_count: the number of distinct entry hashes
unique_entry_count(pak) == Cardinality(DOMAIN pak.path_hashes)

\* PathSearcher::pak_file_count
pak_file_count(self_pak_collection) ==
    IF self_pak_collection.some THEN unique_entry_count(self_pak_collection.value) ELSE 0

\* PakCollection::pak_files
pak_files(pak) == pak.pak_readers

\* PakCollection::should_scan_hash_in_pak: the index names this archive (the
\* last loaded one that holds the hash) as the one to scan the hash in
should_scan_hash_in_pak(pak, hash, index) ==
    hash \in DOMAIN pak.path_hashes /\ pak.path_hashes[hash].archive_index = index

\* allowed_hashes of archive number index (counted from 0)
allowed_hashes(pak, index) ==
    {h \in {pak_files(pak)[index + 1][e].hash : e \in 1..Len(pak_files(pak)[index + 1])} :
        should_scan_hash_in_pak(pak, h, index)}

----------------------------------------------------------------------------
(* main.rs: export_results *)

\* the first loop: the lines of output.list written for found_paths
RECURSIVE found_lines(_)
found_lines(found_paths) ==
    IF found_paths = <<>> THEN <<>>
    ELSE PathsOf(MatchesOf(found_paths[1])) \o found_lines(Tail(found_paths))

\* the second loop: an extra path is written unless its hash was written
RECURSIVE extra_lines(_, _)
extra_lines(extra_full_paths, written) ==
    IF extra_full_paths = <<>> THEN <<>>
    ELSE LET hash == hash_mixed(extra_full_paths[1])
         IN IF hash \notin written
            THEN <<extra_full_paths[1]>> \o extra_lines(Tail(extra_full_paths), written \cup {hash})
            ELSE extra_lines(Tail(extra_full_paths), written)

\* export_results: the lines of the three files (unknown.list is written in
\* the set's iteration order, which is not fixed: kept as a set)
export_results(result, extra_full_paths) ==
    LET lines == found_lines(result.found_paths)
        written == {hash_mixed(lines[i]) : i \in 1..Len(lines)}
    IN [output_raw |-> [i \in 1..Len(result.found_paths) |-> RawOf(result.found_paths[i])],
        output |-> lines \o extra_lines(extra_full_paths, written),
        unknown |-> result.unknown_paths]

----------------------------------------------------------------------------
(* Inputs of the resolver harness *)

\* entries at most in the archive handed to the resolver
MaxPakEntries == 4

ab_tex == <<97, 47, 98, 46, 116, 101, 120>>         \* "a/b.tex"
xy_user == <<120, 47, 121, 46, 117, 115, 101, 114>> \* "x/y.user"
ac_zzz == <<97, 47, 99, 46, 122, 122, 122>>         \* "a/c.zzz"
a_b == <<97, 47, 98>>                               \* "a/b"
a_ == <<97, 47>>                                    \* "a/"
b_tex == <<98, 46, 116, 101, 120>>                  \* "b.tex"

\* two versions of `tex` and the one of `user`, as in default_suffix_map_full
TexOld == 240701001
TexNew == 241106027
UserVer == 3

SuffixMap == [e \in {tex, user} |-> IF e = tex THEN <<TexOld, TexNew>> ELSE <<UserVer>>]

Configs ==
    { [languages |-> <<Ja, En>>, prefixes |-> <<natives_STM>>, suffix_map |-> SuffixMap],
      [languages |-> <<En, Ja>>, prefixes |-> <<a_, natives_STM>>, suffix_map |-> SuffixMap],
      [languages |-> <<Ja, En>>, prefixes |-> <<natives_NSW>>, suffix_map |-> SuffixMap] }

FeatureSets == { {}, {"nsw"} }

RawPaths == { ab_tex, xy_user, ac_zzz, a_b }

\* names an archive entry may carry
EntryNames ==
    { natives_STM \o ab_tex \o Dot \o display_u32(TexNew),
      natives_STM \o ab_tex \o Dot \o display_u32(TexOld),
      natives_STM \o ab_tex \o Dot \o display_u32(TexNew) \o Dot \o En,
      natives_STM \o ab_tex \o Dot \o display_u32(TexNew) \o Dot \o Ja,
      natives_STM \o streaming_ \o ab_tex \o Dot \o display_u32(TexNew),
      natives_STM \o streaming_ \o ab_tex \o Dot \o display_u32(TexNew) \o Dot \o En,
      natives_STM \o streaming_ \o ab_tex \o Dot \o display_u32(TexOld),
      natives_STM \o a_ \o streaming_ \o b_tex \o Dot \o display_u32(TexNew),
      natives_STM \o xy_user \o Dot \o display_u32(UserVer) \o Dot \o STM \o Dot \o En,
      natives_NSW \o ab_tex \o Dot \o display_u32(TexNew) }

\* an archive (a sequence of entries) holding exactly the names of a set
RECURSIVE archive_of(_)
archive_of(names) ==
    IF names = {} THEN <<>>
    ELSE LET n == CHOOSE x \in names : TRUE
         IN <<[hash |-> hash_mixed(n), data |-> <<>>]>> \o archive_of(names \ {n})

----------------------------------------------------------------------------
(* The resolver harness: one call of find_path_i18n on drawn inputs *)

NotCalled == [ok |-> FALSE, list |-> <<>>, probed |-> <<>>]

ResolveInit ==
    /\ r_pc = "call"
    /\ searcher_config \in Configs
    /\ cargo_features \in FeatureSets
    /\ \E names \in SUBSET EntryNames :
          /\ Cardinality(names) <= MaxPakEntries
          /\ pak_collection = Some(from_readers(<<archive_of(names)>>))
    /\ filter = "DefaultFilter"
    /\ path_cache = <<>>
    /\ r_path \in RawPaths
    /\ r_result = NotCalled
    /\ app_dmp = <<>> /\ main_pc = "off" /\ dmp_index = 1
    /\ all_results = [found_paths |-> <<>>, unknown_paths |-> {}]
    /\ exported = None
    /\ search_pc = "idle" /\ pak_index = 1 /\ tasks = <<>>
    /\ all_paths = <<>> /\ unk_paths = {} /\ seen_hashes = {} /\ returned = <<>>
    /\ resolve_calls = <<>> /\ cache_inserts = <<>> /\ validated = <<>> /\ admitted = <<>>
    /\ processed = 0 /\ reported = <<>>
    /\ fn_pc = "off" /\ fn_input = <<>> /\ fn_output = <<>> /\ fn_log = <<>>

ResolveCall ==
    /\ r_pc = "call"
    /\ r_result' = find_path_i18n(pak_collection.value, searcher_config, cargo_features, r_path)
    /\ r_pc' = "done"
    /\ UNCHANGED <<fn_vars, searcher_vars, progress_vars, path_cache, r_path, main_vars, search_vars, call_vars, validated>>

ResolveNext == ResolveCall

SpecResolve == ResolveInit /\ [][ResolveNext]_vars
----------------------------------------------------------------------------
(* Inputs of the driver *)

\* dump files at most on the command line
MaxDumps == 1

\* the UTF-16LE bytes of ASCII text
utf16le(text) ==
    [i \in 1..(2 * Len(text)) |-> IF i % 2 = 1 THEN text[(i + 1) \div 2] ELSE 0]

Pad == <<0, 0>>

BufTex == Pad \o utf16le(ab_tex) \o Pad
BufUserZzz == Pad \o utf16le(xy_user) \o Pad \o utf16le(ac_zzz) \o Pad
BufTexUser == Pad \o utf16le(ab_tex) \o Pad \o utf16le(xy_user) \o Pad
\* starts with the bytes "TEX\0", the magic of a texture
BufMagicTex == <<84, 69, 88, 0>> \o Pad \o Pad \o utf16le(ab_tex) \o Pad

Piece(base_address, bytes) == [base_address |-> base_address, bytes |-> bytes]

\* two blocks, one candidate in the first and two in the second
DumpTwoBlocks == <<Piece(8192, BufUserZzz), Piece(4096, BufTex)>>
\* a block in two adjacent pieces whose seam cuts a path, and a second block
\* that holds the same path
DumpAdjacent ==
    <<Piece(4096 + 8, SubSeq(BufTexUser, 9, Len(BufTexUser))),
      Piece(4096, SubSeq(BufTexUser, 1, 8)),
      Piece(8192, BufTex)>>
\* a block the magic filter skips
DumpMagic == <<Piece(4096, BufMagicTex)>>

\* a block that holds a raw path and the same raw path under streaming/
DumpStreaming == <<Piece(4096, Pad \o utf16le(ab_tex) \o Pad \o utf16le(streaming_ \o ab_tex) \o Pad)>>

\* a dump file: what Minidump::read_path makes of it and, when it can be
\* read, its MinidumpMemory64List stream if it has one
DumpFile(read_path, memory64) == [read_path |-> read_path, memory64 |-> memory64]

\* a file that is no minidump, and a minidump without the full-memory stream
DumpUnreadable == DumpFile("Err", None)
DumpWithoutMemory == DumpFile("Ok", None)

DumpFiles ==
    { DumpFile("Ok", Some(DumpTwoBlocks)), DumpFile("Ok", Some(DumpAdjacent)),
      DumpFile("Ok", Some(DumpMagic)), DumpFile("Ok", Some(DumpStreaming)),
      DumpUnreadable, DumpWithoutMemory }

\* `Minidump::read_path(dmp_path)?` and
\* `get_stream::<MinidumpMemory64List>().context(..)?`: the memory list, or
\* the error the call returns with
read_memory(dump) ==
    IF dump.read_path = "Err" THEN [ok |-> FALSE, error |-> "DumpOpenError"]
    ELSE IF ~dump.memory64.some THEN [ok |-> FALSE, error |-> "DumpMissingMemoryStream"]
    ELSE [ok |-> TRUE, memory |-> dump.memory64.value]

Entry(name, data) == [hash |-> hash_mixed(name), data |-> data]

TexNewName == natives_STM \o ab_tex \o Dot \o display_u32(TexNew)
TexOldName == natives_STM \o ab_tex \o Dot \o display_u32(TexOld)

\* no archive; one archive; two archives that share a hash, which the second
\* holds twice
PakSources ==
    { <<>>,
      << <<Entry(TexNewName, BufUserZzz),
           Entry(natives_STM \o streaming_ \o ab_tex \o Dot \o display_u32(TexNew), BufMagicTex)>> >>,
      << <<Entry(TexOldName, BufTex)>>,
         <<Entry(TexOldName, BufTexUser), Entry(TexOldName \o Dot \o En, BufTex),
           Entry(TexOldName, BufTexUser)>> >> }

----------------------------------------------------------------------------
(* searcher.rs and main.rs: the driver *)

SearchResult(found_paths, unknown_paths) ==
    [found_paths |-> found_paths, unknown_paths |-> unknown_paths]

\* a map with key k set to v (DashMap::insert, and the counters)
map_insert(m, k, v) == [x \in DOMAIN m \cup {k} |-> IF x = k THEN v ELSE m[x]]
count_of(m, k) == IF k \in DOMAIN m THEN m[k] ELSE 0

\* a lookup that never finds an entry
cache_get_always_miss(cache, path) == None

\* DashMap::get
cache_get(cache, path) == IF path \in DOMAIN cache THEN Some(cache[path]) ELSE None

Task(pc, hash, data) ==
    [pc |-> pc, hash |-> hash, data |-> data, pos |-> 0, paths |-> <<>>, path |-> <<>>,
     count |-> 0]

\* one call of the progress callback
Progress(current, total) == [current |-> current, total |-> total]

AllDone == \A t \in DOMAIN tasks : tasks[t].pc = "done"

\* PathSearcherBuilder::build
build(pak_source) ==
    IF pak_source = <<>> THEN None ELSE Some(from_readers(pak_source))

Init ==
    /\ cargo_features = {}
    /\ searcher_config \in Configs
    /\ \E pak_source \in PakSources : pak_collection = build(pak_source)
    /\ filter \in {"DefaultFilter", "None"}
    /\ path_cache = <<>>
    /\ r_pc = "off" /\ r_path = <<>> /\ r_result = NotCalled
    /\ app_dmp \in UNION {[1..n -> DumpFiles] : n \in 0..MaxDumps}
    /\ app_dmp # <<>> \/ pak_collection.some
    /\ main_pc = "dump" /\ dmp_index = 1
    /\ all_results = SearchResult(<<>>, {})
    /\ exported = None
    /\ search_pc = "idle" /\ pak_index = 0 /\ tasks = <<>>
    /\ all_paths = <<>> /\ unk_paths = {} /\ seen_hashes = {} /\ returned = <<>>
    /\ resolve_calls = <<>> /\ cache_inserts = <<>> /\ validated = <<>> /\ admitted = <<>>
    /\ processed = 0 /\ reported = <<>>
    /\ fn_pc = "off" /\ fn_input = <<>> /\ fn_output = <<>> /\ fn_log = <<>>

\* search_memory_dump_with_progress up to the start of the parallel map
StartDumpSearch ==
    /\ main_pc = "dump" /\ search_pc = "idle" /\ dmp_index <= Len(app_dmp)
    /\ read_memory(app_dmp[dmp_index]).ok
    /\ LET memory_blocks == memory_blocks_of(read_memory(app_dmp[dmp_index]).memory)
       IN /\ tasks' = [i \in 1..Len(memory_blocks) |->
                          Task("start", None, memory_blocks[i].data)]
          /\ reported' = Append(reported, <<Progress(0, Len(memory_blocks))>>)
    /\ processed' = 0
    /\ search_pc' = "dump"
    /\ unk_paths' = {} /\ all_paths' = <<>>
    /\ validated' = Append(validated, {})
    /\ UNCHANGED <<fn_vars, searcher_vars, path_cache, r_vars, main_vars, pak_index,
                   seen_hashes, returned, call_vars>>

\* search_memory_dump_with_progress returns the error of read_path or of
\* get_stream, and the `?` of run() returns it from run()
DumpSearchFails ==
    /\ main_pc = "dump" /\ search_pc = "idle" /\ dmp_index <= Len(app_dmp)
    /\ ~read_memory(app_dmp[dmp_index]).ok
    /\ main_pc' = "failed"
    /\ UNCHANGED <<fn_vars, searcher_vars, progress_vars, path_cache, r_vars, app_dmp,
                   dmp_index, all_results, exported, search_vars, call_vars, validated>>

\* the filter callback of the extractor, for one entry of the archive
Admit(t) ==
    /\ search_pc = "pak" /\ tasks[t].pc = "filter"
    /\ LET hash == tasks[t].hash.value
       IN IF hash \notin allowed_hashes(pak_collection.value, pak_index - 1)
          THEN /\ tasks' = [tasks EXCEPT ![t].pc = "done"]
               /\ UNCHANGED <<seen_hashes, admitted>>
          ELSE /\ seen_hashes' = seen_hashes \cup {hash}
               /\ tasks' = [tasks EXCEPT ![t].pc =
                               IF hash \in seen_hashes THEN "done" ELSE "start"]
               /\ admitted' = IF hash \in seen_hashes THEN admitted
                              ELSE map_insert(admitted, <<hash, pak_index - 1>>,
                                              count_of(admitted, <<hash, pak_index - 1>>) + 1)
    /\ UNCHANGED <<fn_vars, searcher_vars, progress_vars, path_cache, r_vars, main_vars, search_pc, pak_index,
                   all_paths, unk_paths, returned, resolve_calls, cache_inserts, validated>>

\* the start of a task: should_skip_file decides whether search_memory runs
Begin(t) ==
    /\ search_pc \in {"dump", "pak"} /\ tasks[t].pc = "start"
    /\ tasks' = [tasks EXCEPT ![t].pc =
                    IF should_skip_file(filter, tasks[t].data) THEN "finish" ELSE "seek"]
    /\ UNCHANGED <<fn_vars, searcher_vars, progress_vars, path_cache, r_vars, main_vars, search_pc, pak_index,
                   all_paths, unk_paths, seen_hashes, returned, call_vars, validated>>

\* search_memory from the cursor to the next candidate that passes
\* validate_path, and what the code does with it up to and including the
\* cache lookup
Seek(t) ==
    /\ search_pc \in {"dump", "pak"} /\ tasks[t].pc = "seek"
    /\ LET it == next_candidate(tasks[t].data, tasks[t].pos)
           cached_result == cache_get(path_cache, it.path)
       IN /\ tasks' = [tasks EXCEPT ![t] =
             IF it.kind = "end" THEN [@ EXCEPT !.pc = "finish", !.pos = it.pos]
             ELSE IF ~pak_collection.some
                  THEN [@ EXCEPT !.pos = it.pos, !.paths = Append(@, <<it.path, <<>> >>)]
             ELSE IF cached_result.some
                  THEN IF cached_result.value.some
                       THEN [@ EXCEPT !.pos = it.pos,
                                      !.paths = Append(@, <<it.path, cached_result.value.value>>)]
                       ELSE [@ EXCEPT !.pos = it.pos]
             ELSE [@ EXCEPT !.pc = "miss", !.pos = it.pos, !.path = it.path]]
          /\ validated' = IF it.kind = "end" THEN validated
                          ELSE [validated EXCEPT ![Len(validated)] = @ \cup {it.path}]
    /\ UNCHANGED <<fn_vars, searcher_vars, progress_vars, path_cache, r_vars, main_vars, search_pc, pak_index,
                   all_paths, unk_paths, seen_hashes, returned, call_vars>>

\* after a cache miss: find_path_i18n and the first write that follows it
Resolve(t) ==
    /\ search_pc \in {"dump", "pak"} /\ tasks[t].pc = "miss"
    /\ LET path == tasks[t].path
           file_hashes == find_path_i18n(pak_collection.value, searcher_config,
                                         cargo_features, path)
       IN /\ resolve_calls' = map_insert(resolve_calls, path, count_of(resolve_calls, path) + 1)
          /\ IF ~file_hashes.ok
             THEN /\ unk_paths' = unk_paths \cup {path}
                  /\ tasks' = [tasks EXCEPT ![t].pc = "cache_none"]
                  /\ UNCHANGED <<path_cache, cache_inserts>>
             ELSE /\ path_cache' = map_insert(path_cache, path, Some(file_hashes.list))
                  /\ cache_inserts' = map_insert(cache_inserts, path,
                                                 count_of(cache_inserts, path) + 1)
                  /\ tasks' = [tasks EXCEPT ![t] =
                                  [@ EXCEPT !.pc = "seek",
                                            !.paths = Append(@, <<path, file_hashes.list>>)]]
                  /\ UNCHANGED unk_paths
    /\ UNCHANGED <<fn_vars, searcher_vars, progress_vars, r_vars, main_vars, search_pc, pak_index, all_paths,
                   seen_hashes, returned, validated, admitted>>

\* the negative entry: self.path_cache.insert(path, None)
CacheNone(t) ==
    /\ search_pc \in {"dump", "pak"} /\ tasks[t].pc = "cache_none"
    /\ path_cache' = map_insert(path_cache, tasks[t].path, None)
    /\ cache_inserts' = map_insert(cache_inserts, tasks[t].path,
                                   count_of(cache_inserts, tasks[t].path) + 1)
    /\ tasks' = [tasks EXCEPT ![t].pc = "seek"]
    /\ UNCHANGED <<fn_vars, searcher_vars, progress_vars, r_vars, main_vars, search_pc, pak_index, all_paths,
                   unk_paths, seen_hashes, returned, resolve_calls, validated, admitted>>

\* the end of a task: the dump search keeps the task's paths for par_extend,
\* the pak search appends them to the shared list when there are any
Finish(t) ==
    /\ search_pc \in {"dump", "pak"} /\ tasks[t].pc = "finish"
    /\ tasks' = [tasks EXCEPT ![t].pc = "report", ![t].count = processed + 1]
    /\ processed' = processed + 1
    /\ all_paths' = IF search_pc = "pak" THEN all_paths \o tasks[t].paths ELSE all_paths
    /\ UNCHANGED <<fn_vars, searcher_vars, reported, path_cache, r_vars, main_vars, search_pc,
                   pak_index, unk_paths, seen_hashes, returned, call_vars, validated>>

\* a total that counts the tasks of the running batch, for both searches
total_of_batch(kind, self_pak_collection, self_tasks) == Len(self_tasks)

\* the total a search hands to the progress callback
total_of(kind, self_pak_collection, self_tasks) ==
    IF kind = "dump" THEN Len(self_tasks) ELSE unique_entry_count(self_pak_collection.value)

\* `progress.on_progress(count, total)`
Report(t) ==
    /\ search_pc \in {"dump", "pak"} /\ tasks[t].pc = "report"
    /\ reported' = [reported EXCEPT ![Len(reported)] =
                        Append(@, Progress(tasks[t].count,
                                           total_of(search_pc, pak_collection, tasks)))]
    /\ tasks' = [tasks EXCEPT ![t].pc = "done"]
    /\ UNCHANGED <<fn_vars, searcher_vars, processed, path_cache, r_vars, main_vars, search_pc,
                   pak_index, all_paths, unk_paths, seen_hashes, returned, call_vars,
                   validated>>

\* par_extend keeps the order of the blocks
RECURSIVE collect_paths(_, _)
collect_paths(done, i) ==
    IF i > Len(done) THEN <<>> ELSE done[i].paths \o collect_paths(done, i + 1)

\* the return of a search and what run() does with it
take_result(result) ==
    /\ returned' = Append(returned, result)
    /\ all_results' = SearchResult(all_results.found_paths \o result.found_paths,
                                   all_results.unknown_paths \cup result.unknown_paths)

\* the end of search_memory_dump_with_progress: sort, dedup, return
FinishDumpSearch ==
    /\ search_pc = "dump" /\ AllDone
    /\ take_result(SearchResult(dedup_by(sort_by(collect_paths(tasks, 1))), unk_paths))
    /\ dmp_index' = dmp_index + 1
    /\ search_pc' = "idle" /\ tasks' = <<>>
    /\ UNCHANGED <<fn_vars, searcher_vars, progress_vars, path_cache, r_vars, app_dmp, main_pc, exported, pak_index,
                   all_paths, unk_paths, seen_hashes, call_vars, validated>>

\* run() after the last dump
DumpsDone ==
    /\ main_pc = "dump" /\ search_pc = "idle" /\ dmp_index > Len(app_dmp)
    /\ main_pc' = IF pak_file_count(pak_collection) # 0 THEN "pak" ELSE "export"
    /\ UNCHANGED <<fn_vars, searcher_vars, progress_vars, path_cache, r_vars, app_dmp, dmp_index, all_results,
                   exported, search_vars, call_vars, validated>>

\* search_pak_files_with_progress up to the loop over the archives
StartPakSearch ==
    /\ main_pc = "pak" /\ search_pc = "idle"
    /\ search_pc' = "pak" /\ pak_index' = 0 /\ tasks' = <<>>
    /\ all_paths' = <<>> /\ unk_paths' = {} /\ seen_hashes' = {}
    /\ validated' = Append(validated, {})
    /\ processed' = 0
    /\ reported' = Append(reported, <<Progress(0, unique_entry_count(pak_collection.value))>>)
    /\ UNCHANGED <<fn_vars, searcher_vars, path_cache, r_vars, main_vars, returned, call_vars>>

\* one turn of `for (pak_index, pak) in pak_files`: the extraction of the
\* next archive starts when that of the one before has ended
StartPak ==
    /\ search_pc = "pak" /\ AllDone
    /\ pak_index < Len(pak_files(pak_collection.value))
    /\ pak_index' = pak_index + 1
    /\ LET entries == pak_files(pak_collection.value)[pak_index + 1]
       IN tasks' = [e \in 1..Len(entries) |->
                       Task("filter", Some(entries[e].hash), entries[e].data)]
    /\ seen_hashes' = {}
    /\ UNCHANGED <<fn_vars, searcher_vars, progress_vars, path_cache, r_vars, main_vars, search_pc, all_paths,
                   unk_paths, returned, call_vars, validated>>

\* the end of search_pak_files_with_progress: sort, dedup, return
FinishPakSearch ==
    /\ search_pc = "pak" /\ AllDone
    /\ pak_index = Len(pak_files(pak_collection.value))
    /\ take_result(SearchResult(dedup_by(sort_by(all_paths)), unk_paths))
    /\ main_pc' = "export"
    /\ search_pc' = "idle" /\ tasks' = <<>>
    /\ UNCHANGED <<fn_vars, searcher_vars, progress_vars, path_cache, r_vars, app_dmp, dmp_index, exported, pak_index,
                   all_paths, unk_paths, seen_hashes, call_vars, validated>>

\* run(): sort and dedup of the merged results, then export_results (no
\* reference list was given)
Export ==
    /\ main_pc = "export"
    /\ \E sorted \in sort_unstable_by(all_results.found_paths) :
          /\ all_results' = SearchResult(dedup_by(sorted), all_results.unknown_paths)
          /\ exported' = Some(export_results(all_results', <<>>))
    /\ main_pc' = "done"
    /\ UNCHANGED <<fn_vars, searcher_vars, progress_vars, path_cache, r_vars, app_dmp, dmp_index, search_vars, call_vars, validated>>

Next ==
    \/ StartDumpSearch
    \/ \E t \in DOMAIN tasks : Admit(t)
    \/ \E t \in DOMAIN tasks : Begin(t)
    \/ \E t \in DOMAIN tasks : Seek(t)
    \/ \E t \in DOMAIN tasks : Resolve(t)
    \/ \E t \in DOMAIN tasks : CacheNone(t)
    \/ \E t \in DOMAIN tasks : Finish(t)
    \/ \E t \in DOMAIN tasks : Report(t)
    \/ DumpSearchFails
    \/ FinishDumpSearch
    \/ DumpsDone
    \/ StartPakSearch
    \/ StartPak
    \/ FinishPakSearch
    \/ Export

Spec == Init /\ [][Next]_vars

----------------------------------------------------------------------------
(* Properties of the resolver, stated without the loops of the code *)

\* the table's versions for the extension of the raw path, oldest first
VersionsOf(config, path) ==
    IF extension(path).some /\ suffix_versions(config, extension(path).value).some
    THEN suffix_versions(config, extension(path).value).value
    ELSE <<>>

\* the candidates of one version: for base b of the version's base paths, the
\* base itself and then base.<language> in the config's language order
CandidateSeq(config, features, path, version) ==
    LET base == full_paths(features, path, version)
        nl == Len(config.languages)
    IN [i \in 1..(Len(base) * (nl + 1)) |->
           LET b == ((i - 1) \div (nl + 1)) + 1
               l == (i - 1) % (nl + 1)
           IN IF l = 0 THEN base[b] ELSE base[b] \o Dot \o config.languages[l]]

Range(seq) == {seq[i] : i \in 1..Len(seq)}

\* some candidate of this version is in the archive
HasHit(pak, config, features, path, version) ==
    \E c \in Range(CandidateSeq(config, features, path, version)) : contains_path(pak, c)

\* index in the table of the newest version with a hit (0 when there is none)
MatchedIndex(pak, config, features, path) ==
    LET vs == VersionsOf(config, path)
        hit == {k \in 1..Len(vs) : HasHit(pak, config, features, path, vs[k])}
    IN IF hit = {} THEN 0 ELSE CHOOSE k \in hit : \A j \in hit : j <= k

\* a candidate of the version, or a candidate with `streaming/` inserted somewhere
OfVersion(config, features, path, version, f) ==
    \E c \in Range(CandidateSeq(config, features, path, version)) :
        \/ f = c
        \/ \E at \in 0..Len(c) : f = insert_str(c, at, streaming_)

\* the hits the matched version must report: its candidates that are in the
\* archive, in candidate order
ExpectedHits(pak, config, features, path) ==
    LET vs == VersionsOf(config, path)
        m == MatchedIndex(pak, config, features, path)
        present(c) == contains_path(pak, c)
    IN IF m = 0 THEN <<>>
       ELSE SelectSeq(CandidateSeq(config, features, path, vs[m]), present)

\* the hit with `streaming/` inserted right after the first configured prefix
\* (in config order) that occurs in it, at that prefix's first occurrence
StreamingOf(config, f) ==
    LET occurring == {i \in 1..Len(config.prefixes) : str_find(f, config.prefixes[i]).some}
    IN IF occurring = {} THEN None
       ELSE LET i == CHOOSE x \in occurring : \A y \in occurring : x <= y
                at == str_find(f, config.prefixes[i]).value + Len(config.prefixes[i])
            IN Some(insert_str(f, at, streaming_))

\* the overlays a list of hits must add: per hit, in hit order, its streaming
\* path when the archive contains it
ExpectedOverlays(pak, config, hits) ==
    LET overlay == [i \in 1..Len(hits) |-> StreamingOf(config, hits[i])]
        present(o) == o.some /\ contains_path(pak, o.value)
        kept == SelectSeq(overlay, present)
    IN [i \in 1..Len(kept) |-> kept[i].value]

\* C1: every full path find_path_i18n returns (base hit, language variant or
\* streaming overlay) is a hit of the archive's hash index: contains_path
\* holds of it.
C1_ReturnedPathsAreIndexHits ==
    r_pc = "done" =>
        \A i \in 1..Len(r_result.list) :
            contains_path(pak_collection.value, r_result.list[i].full_path)

\* C1 witness: a call returned a base hit, a language variant and an overlay.
C1_Witness ==
    /\ r_pc = "done"
    /\ Len(r_result.list) >= 3
    /\ \E i, j, k \in 1..Len(r_result.list) :
          /\ r_result.list[i].full_path \in Range(full_paths(cargo_features, r_path, TexNew))
          /\ r_result.list[j].full_path = r_result.list[i].full_path \o Dot \o En
          /\ r_result.list[k].full_path =
                 insert_str(r_result.list[i].full_path, Len(natives_STM), streaming_)

\* C8: for an extension with versions in the table, the returned hits all
\* belong to one version, the newest one that has a base or language
\* candidate in the archive; the list is empty exactly when no version has
\* one; and no candidate of a version older than the matched one is probed.
C8_NewestVersionOnly ==
    (r_pc = "done" /\ VersionsOf(searcher_config, r_path) # <<>>) =>
        LET vs == VersionsOf(searcher_config, r_path)
            m == MatchedIndex(pak_collection.value, searcher_config, cargo_features, r_path)
        IN /\ r_result.ok
           /\ (m = 0) <=> (r_result.list = <<>>)
           /\ m > 0 =>
                \A i \in 1..Len(r_result.list) :
                    OfVersion(searcher_config, cargo_features, r_path, vs[m], r_result.list[i].full_path)
           /\ \A i \in 1..Len(r_result.probed) :
                \E k \in 1..Len(vs) :
                    /\ k >= m
                    /\ OfVersion(searcher_config, cargo_features, r_path, vs[k], r_result.probed[i])

\* C8 witness: both versions of `tex` are in the archive and the call returned.
C8_Witness ==
    /\ r_pc = "done"
    /\ r_path = ab_tex
    /\ HasHit(pak_collection.value, searcher_config, cargo_features, r_path, TexOld)
    /\ HasHit(pak_collection.value, searcher_config, cargo_features, r_path, TexNew)
    /\ r_result.list # <<>>

\* C9: the non-streaming part of the result is, for each base candidate of the
\* matched version in order, the base path when the archive has it and then
\* every language variant the archive has, in the config's language order.
C9_BaseThenLanguagesInConfigOrder ==
    (r_pc = "done" /\ VersionsOf(searcher_config, r_path) # <<>>) =>
        LET expected == ExpectedHits(pak_collection.value, searcher_config, cargo_features, r_path)
        IN /\ Len(r_result.list) >= Len(expected)
           /\ SubSeq(PathsOf(r_result.list), 1, Len(expected)) = expected

\* C9 witness: a base path and two of its language variants were returned.
C9_Witness ==
    /\ r_pc = "done"
    /\ Len(r_result.list) >= 3
    /\ \E b \in Range(full_paths(cargo_features, r_path, TexNew)) :
          SubSeq(PathsOf(r_result.list), 1, 3) =
              <<b, b \o Dot \o searcher_config.languages[1], b \o Dot \o searcher_config.languages[2]>>

\* C10: the result is the hits of the matched version followed by the
\* streaming overlays: for each hit in order, the hit with `streaming/`
\* inserted right after the first configured prefix occurring in it, kept iff
\* the archive contains it.
C10_StreamingOverlaysAppended ==
    (r_pc = "done" /\ VersionsOf(searcher_config, r_path) # <<>>) =>
        LET hits == ExpectedHits(pak_collection.value, searcher_config, cargo_features, r_path)
        IN PathsOf(r_result.list) = hits \o ExpectedOverlays(pak_collection.value, searcher_config, hits)

\* C10 witness: two hits, each with its overlay in the archive, were returned.
C10_Witness ==
    /\ r_pc = "done"
    /\ Len(ExpectedHits(pak_collection.value, searcher_config, cargo_features, r_path)) = 2
    /\ Len(r_result.list) = 4

----------------------------------------------------------------------------
(* Properties of the drivers *)

\* every expansion of the raw path under the expander: for each version the
\* table has for its extension, each base and language candidate and each of
\* them with `streaming/` inserted
NoExpansionIn(pak, config, features, path) ==
    LET vs == VersionsOf(config, path)
    IN \A k \in 1..Len(vs) :
          \A c \in Range(CandidateSeq(config, features, path, vs[k])) :
              /\ ~contains_path(pak, c)
              /\ \A at \in 0..Len(c) : ~contains_path(pak, insert_str(c, at, streaming_))

StrictlyAscending(raw_paths) ==
    \A i \in 1..(Len(raw_paths) - 1) : str_lt(raw_paths[i], raw_paths[i + 1])

RawPathsOf(found_paths) == [i \in 1..Len(found_paths) |-> RawOf(found_paths[i])]

\* C2: every entry of a returned SearchResult.found_paths, and every raw path
\* written to output_raw.list, comes with at least one match.
C2_FoundPathsHaveMatches ==
    /\ \A s \in 1..Len(returned) :
          \A i \in 1..Len(returned[s].found_paths) :
              MatchesOf(returned[s].found_paths[i]) # <<>>
    /\ main_pc = "done" =>
          \A i \in 1..Len(all_results.found_paths) :
              MatchesOf(all_results.found_paths[i]) # <<>>

\* C3: with an archive collection loaded, every candidate that passed
\* validate_path during a search and has no expansion in the archive is in the
\* unknown_paths of the SearchResult that search returned.
C3_UnmatchedCandidatesAreUnknown ==
    pak_collection.some =>
        \A s \in 1..Len(returned) :
            \A path \in validated[s] :
                NoExpansionIn(pak_collection.value, searcher_config, cargo_features, path)
                    => path \in returned[s].unknown_paths

\* C4: no expansion of a raw path in a returned SearchResult.unknown_paths, or
\* in the exported unknown.list, is present in the archive collection.
C4_UnknownPathsHaveNoExpansion ==
    pak_collection.some =>
        /\ \A s \in 1..Len(returned) :
              \A path \in returned[s].unknown_paths :
                  NoExpansionIn(pak_collection.value, searcher_config, cargo_features, path)
        /\ exported.some =>
              \A path \in exported.value.unknown :
                  NoExpansionIn(pak_collection.value, searcher_config, cargo_features, path)

\* C4 witness: a search over an archive that holds a texture returned a raw
\* path in unknown_paths.
C4_Witness ==
    /\ pak_collection.some
    /\ \E s \in 1..Len(returned) : returned[s].unknown_paths # {}
    /\ \E path \in {ab_tex} :
          ~NoExpansionIn(pak_collection.value, searcher_config, cargo_features, path)

\* the step is the cache lookup of task t for a candidate that has a cache entry
CachedLookup(t) ==
    /\ tasks[t].pc = "seek"
    /\ pak_collection.some
    /\ t \in DOMAIN tasks' /\ tasks'[t] # tasks[t]
    /\ next_candidate(tasks[t].data, tasks[t].pos).kind = "path"
    /\ next_candidate(tasks[t].data, tasks[t].pos).path \in DOMAIN path_cache

\* C5: a lookup of a raw path that has a cache entry emits exactly the cached
\* match list (nothing for a negative entry), calls neither find_path_i18n nor
\* contains_path and leaves the cache alone; and a cache entry, once made,
\* keeps its value for the rest of the run, over buffers and searches.
C5_CacheHitReturnsCachedList ==
    [][/\ \A t \in DOMAIN tasks :
             CachedLookup(t) =>
                 LET path == next_candidate(tasks[t].data, tasks[t].pos).path
                 IN /\ tasks'[t].pc = "seek"
                    /\ tasks'[t].paths =
                          IF path_cache[path].some
                          THEN Append(tasks[t].paths, <<path, path_cache[path].value>>)
                          ELSE tasks[t].paths
                    /\ resolve_calls' = resolve_calls
                    /\ path_cache' = path_cache
       /\ \A path \in DOMAIN path_cache :
             path \in DOMAIN path_cache' /\ path_cache'[path] = path_cache[path]
      ]_vars

\* C5 witness: in the second search on the PathSearcher, a task has emitted a
\* raw path with its matches although no call resolved a path in that search
\* that the first had not resolved: the entry came from the cache.
C5_Witness ==
    /\ Len(returned) = 1 /\ search_pc = "pak"
    /\ \E t \in DOMAIN tasks :
          \E i \in 1..Len(tasks[t].paths) :
              /\ MatchesOf(tasks[t].paths[i]) # <<>>
              /\ count_of(resolve_calls, RawOf(tasks[t].paths[i])) = 1
              /\ RawOf(tasks[t].paths[i]) \in Range(RawPathsOf(returned[1].found_paths))

\* C6: over the whole run each raw path is resolved against the archive at
\* most once and inserted into the cache at most once.
C6_ResolvedAndInsertedOnce ==
    /\ \A path \in DOMAIN resolve_calls : resolve_calls[path] <= 1
    /\ \A path \in DOMAIN cache_inserts : cache_inserts[path] <= 1

\* C7: the found_paths every search returns, and the list main exports after
\* merging them, are strictly ascending by raw path.
C7_FoundPathsStrictlyAscending ==
    /\ \A s \in 1..Len(returned) :
          StrictlyAscending(RawPathsOf(returned[s].found_paths))
    /\ exported.some => StrictlyAscending(exported.value.output_raw)

\* C7 witness: the export of a merge of a dump result and a pak result that
\* share a raw path, with two raw paths or more in the exported list.
C7_Witness ==
    /\ exported.some
    /\ Len(returned) = 2
    /\ Range(RawPathsOf(returned[1].found_paths))
           \cap Range(RawPathsOf(returned[2].found_paths)) # {}
    /\ Len(exported.value.output_raw) >= 2

----------------------------------------------------------------------------
(* Properties of the candidate set *)

\* text `s` starts with text `p`
starts_with(s, p) == Len(p) <= Len(s) /\ SubSeq(s, 1, Len(p)) = p

\* C11: the base candidates probed for a version come from the config's
\* prefix list: for every configured prefix P the shapes P+raw+'.'+V and
\* P+raw+'.'+V+'.X64' of the newest version V are probed, and every probed
\* path starts with a configured prefix.
C11_BaseCandidatesFromConfigPrefixes ==
    (r_pc = "done" /\ VersionsOf(searcher_config, r_path) # <<>>) =>
        LET vs == VersionsOf(searcher_config, r_path)
            v == display_u32(vs[Len(vs)])
        IN /\ \A i \in 1..Len(searcher_config.prefixes) :
                 /\ searcher_config.prefixes[i] \o r_path \o Dot \o v
                        \in Range(r_result.probed)
                 /\ searcher_config.prefixes[i] \o r_path \o Dot \o v \o Dot \o X64
                        \in Range(r_result.probed)
           /\ \A k \in 1..Len(r_result.probed) :
                 \E i \in 1..Len(searcher_config.prefixes) :
                     starts_with(r_result.probed[k], searcher_config.prefixes[i])

----------------------------------------------------------------------------
(* Properties of the pak search *)

\* the hashes of the entries of archive number index (counted from 0)
HashesOf(readers, index) ==
    {readers[index + 1][e].hash : e \in 1..Len(readers[index + 1])}

\* the number (from 0) of the last-loaded archive that holds hash h
LastArchiveWith(readers, h) ==
    CHOOSE i \in 0..(Len(readers) - 1) :
        /\ h \in HashesOf(readers, i)
        /\ \A j \in 0..(Len(readers) - 1) : h \in HashesOf(readers, j) => j <= i

\* the pak search has returned
PakSearchReturned == pak_collection.some /\ main_pc \in {"export", "done"}

\* C12: in a pak search the filter admits a hash at most once in the whole
\* run, and only in the last-loaded archive that holds it; once the search
\* has returned, every hash of the collection has been admitted exactly once.
C12_HashScannedOnceByLastArchive ==
    pak_collection.some =>
        LET readers == pak_collection.value.pak_readers
        IN /\ \A key \in DOMAIN admitted :
                 /\ admitted[key] = 1
                 /\ key[2] = LastArchiveWith(readers, key[1])
           /\ PakSearchReturned =>
                 \A i \in 0..(Len(readers) - 1) :
                     \A h \in HashesOf(readers, i) :
                         <<h, LastArchiveWith(readers, h)>> \in DOMAIN admitted

\* C12 witness: the pak search of a collection whose two archives share a
\* hash, the second holding it twice, has returned.
C12_Witness ==
    /\ PakSearchReturned
    /\ Len(pak_collection.value.pak_readers) = 2
    /\ \E h \in HashesOf(pak_collection.value.pak_readers, 0) :
          /\ h \in HashesOf(pak_collection.value.pak_readers, 1)
          /\ Cardinality({e \in 1..Len(pak_collection.value.pak_readers[2]) :
                             pak_collection.value.pak_readers[2][e].hash = h}) = 2
          /\ <<h, 1>> \in DOMAIN admitted

----------------------------------------------------------------------------
(* Properties of the export *)

\* no text occurs twice in the list
NoRepeats(lines) ==
    \A i, j \in 1..Len(lines) : lines[i] = lines[j] => i = j

\* C13: output.list holds every full path of every match of the merged
\* found_paths, and holds no full path twice.
C13_FullPathsWrittenOnce ==
    exported.some =>
        /\ \A i \in 1..Len(all_results.found_paths) :
              \A k \in 1..Len(MatchesOf(all_results.found_paths[i])) :
                  MatchesOf(all_results.found_paths[i])[k].full_path
                      \in Range(exported.value.output)
        /\ NoRepeats(exported.value.output)

----------------------------------------------------------------------------
(* The harness of the pure functions: one call on a drawn argument *)

\* no PathSearcher is built and no search runs
SearcherOffWith(configs) ==
    /\ cargo_features = {}
    /\ searcher_config \in configs
    /\ pak_collection = None
    /\ filter = "DefaultFilter"
    /\ path_cache = <<>>
    /\ r_pc = "off" /\ r_path = <<>> /\ r_result = NotCalled
    /\ app_dmp = <<>> /\ main_pc = "off" /\ dmp_index = 1
    /\ all_results = SearchResult(<<>>, {})
    /\ exported = None
    /\ search_pc = "idle" /\ pak_index = 0 /\ tasks = <<>>
    /\ all_paths = <<>> /\ unk_paths = {} /\ seen_hashes = {} /\ returned = <<>>
    /\ resolve_calls = <<>> /\ cache_inserts = <<>> /\ validated = <<>> /\ admitted = <<>>
    /\ processed = 0 /\ reported = <<>>

SearcherOff ==
    SearcherOffWith({[languages |-> <<Ja, En>>, prefixes |-> <<natives_STM>>,
                      suffix_map |-> SuffixMap]})

\* the texts of at most n characters over an alphabet
TextsUpTo(alphabet, n) == UNION {[1..k -> alphabet] : k \in 0..n}

\* characters at most in an argument of validate_path
MaxValidateLen == 5

\* `/`, `.` and a letter
ValidateAlphabet == {47, 46, 97}

ValidateInit ==
    /\ SearcherOff
    /\ fn_pc = "call"
    /\ fn_input \in TextsUpTo(ValidateAlphabet, MaxValidateLen)
    /\ fn_output = <<>>
    /\ fn_log = <<>>

ValidateCall ==
    /\ fn_pc = "call"
    /\ fn_output' = validate_path(fn_input)
    /\ fn_pc' = "done"
    /\ UNCHANGED <<fn_input, fn_log, searcher_vars, progress_vars, path_cache, r_vars, main_vars,
                   search_vars, call_vars, validated>>

ValidateNext == ValidateCall

SpecValidate == ValidateInit /\ [][ValidateNext]_vars

\* the segment after the last `/` of a text that has one
LastSegment(path) ==
    LET slashes == {i \in 1..Len(path) : path[i] = 47}
        last == CHOOSE i \in slashes : \A j \in slashes : j <= i
    IN SubSeq(path, last + 1, Len(path))

\* C14: validate_path accepts a text if and only if the text contains `/` and
\* the segment after its last `/` has some `.` at an index i (from 0) with
\* 0 < i < len - 1 of the segment.
C14_ValidateAcceptsIffInteriorDot ==
    fn_pc = "done" =>
        (fn_output <=>
            /\ \E i \in 1..Len(fn_input) : fn_input[i] = 47
            /\ \E i \in 0..(Len(LastSegment(fn_input)) - 1) :
                  /\ LastSegment(fn_input)[i + 1] = 46
                  /\ 0 < i /\ i < Len(LastSegment(fn_input)) - 1)

----------------------------------------------------------------------------
(* The harness of the magic filter: one task of a driver on a drawn buffer *)

MagicTEX == <<84, 69, 88, 0>>     \* "TEX\0"
MagicBKHD == <<66, 75, 72, 68>>   \* "BKHD"
MagicAKPK == <<65, 75, 80, 75>>   \* "AKPK"
MagicGMSG == <<71, 77, 83, 71>>   \* "GMSG"

\* the first four bytes, the next four and the rest of a drawn buffer
FilterHeads == {MagicTEX, MagicBKHD, MagicAKPK, <<84, 69, 88, 1>>, <<0, 84, 69, 88>>, <<0, 0, 0, 0>>}
FilterMids == {MagicGMSG, <<71, 77, 83, 0>>, <<0, 0, 0, 0>>}
FilterTails == {<<>>, Pad \o utf16le(ab_tex) \o Pad}

\* whole buffers, and what is left of them when they are cut short
FilterBuffers ==
    {h \o m \o t : h \in FilterHeads, m \in FilterMids, t \in FilterTails}
    \cup {SubSeq(h \o m, 1, n) : h \in FilterHeads, m \in FilterMids, n \in 0..7}
    \cup {SubSeq(utf16le(ab_tex), 1, n) : n \in 0..7}

FilterInit ==
    /\ SearcherOff
    /\ fn_pc = "call"
    /\ fn_input \in FilterBuffers
    /\ fn_output = [skip |-> FALSE, paths |-> <<>>]
    /\ fn_log = <<>>

\* `if self.should_skip_file(&memory.data, None)`
FilterCall ==
    /\ fn_pc = "call"
    /\ LET skip == should_skip_file(filter, fn_input)
       IN /\ fn_output' = [skip |-> skip, paths |-> <<>>]
          /\ fn_pc' = IF skip THEN "done" ELSE "scan"
          /\ fn_log' = Append(fn_log, "should_skip_file")
    /\ UNCHANGED <<fn_input, searcher_vars, progress_vars, path_cache, r_vars, main_vars,
                   search_vars, call_vars, validated>>

\* the else branch: self.search_memory(&memory.data, &unk_paths)
FilterScan ==
    /\ fn_pc = "scan"
    /\ fn_output' = [fn_output EXCEPT !.paths = search_memory_no_pak(fn_input, 0)]
    /\ fn_pc' = "done"
    /\ fn_log' = Append(fn_log, "search_memory")
    /\ UNCHANGED <<fn_input, searcher_vars, progress_vars, path_cache, r_vars, main_vars,
                   search_vars, call_vars, validated>>

FilterNext == FilterCall \/ FilterScan

SpecFilter == FilterInit /\ [][FilterNext]_vars

\* shorter than 8 bytes, or bytes 0..4 are one of the three magics, or bytes
\* 4..8 are the fourth
Skippable(data) ==
    \/ Len(data) < 8
    \/ SubSeq(data, 1, 4) \in {MagicTEX, MagicBKHD, MagicAKPK}
    \/ SubSeq(data, 5, 8) = MagicGMSG

\* C15: the default filter skips a buffer if and only if the buffer is
\* shorter than 8 bytes or carries one of the four magics; a skipped buffer is
\* not handed to search_memory and contributes no candidate.
C15_DefaultFilterSkipsExactlyMagics ==
    fn_pc # "call" =>
        /\ fn_output.skip <=> Skippable(fn_input)
        /\ fn_output.skip => (fn_pc = "done" /\ fn_output.paths = <<>>
                              /\ fn_log = <<"should_skip_file">>)
        /\ (~fn_output.skip /\ fn_pc = "done") =>
              fn_output.paths = search_memory_no_pak(fn_input, 0)

\* C15 witness: a buffer that carries the magic in bytes 4..8 and the text of
\* a valid path behind it was skipped and gave no candidate.
C15_Witness ==
    /\ fn_pc = "done"
    /\ fn_output.skip
    /\ Len(fn_input) > 8
    /\ SubSeq(fn_input, 1, 4) = <<0, 0, 0, 0>>
    /\ SubSeq(fn_input, 5, 8) = MagicGMSG
    /\ search_memory_no_pak(fn_input, 0) # <<>>
    /\ fn_output.paths = <<>>

----------------------------------------------------------------------------
(* The harness of the scanner: search_memory, seed by seed, on a drawn buffer *)

\* characters at most in the text drawn for the middle of the buffer
MaxScanLen == 5

\* `/`, `.` and a letter
ScanAlphabet == {47, 46, 97}

\* the texts encoded in the middle of the buffer: the short ones, and some with
\* a space or with two `/`
ScanTexts ==
    TextsUpTo(ScanAlphabet, MaxScanLen)
    \cup {ab_tex, <<97, 32, 47, 97, 46, 97>>, <<97, 47, 97, 47, 97, 46, 97>>}

\* the bytes before and behind the encoded text: none, bytes that fail
\* accept_char, a byte pair with a non-zero high byte, a pair that continues
\* the text and, before it, another encoded text that ends on an even or on
\* an odd offset
ScanLeftPads ==
    { <<>>, <<1>>, <<0, 0>>, <<34, 0>>, <<98, 0>>,
      utf16le(<<97, 47, 97, 46, 97>>) \o <<0, 0>>,     \* "a/a.a" and a zero pair
      utf16le(<<97, 47, 97, 46, 97>>) \o <<1>> }       \* "a/a.a" and one odd byte
ScanRightPads == {<<>>, <<1>>, <<0, 0>>, <<34, 0>>, <<98, 0>>, <<98, 1>>}

\* the buffer a drawn argument stands for
BufferOf(arg) == arg.left \o utf16le(arg.text) \o arg.right

ScanInit ==
    /\ SearcherOff
    /\ fn_pc = "call"
    /\ fn_input \in [left : ScanLeftPads, text : ScanTexts, right : ScanRightPads]
    /\ fn_output = [pos |-> 0, paths |-> <<>>]
    /\ fn_log = <<>>

\* one iteration of the `while let` of search_memory (no archive loaded); the
\* log keeps, per seed, its offset, whether it gave a candidate, the cursor
\* the search for it started from, the offsets the inner loops read and,
\* when the iteration got as far as string_from_utf16_bytes, the slice
ScanSeed ==
    /\ fn_pc = "call"
    /\ LET memory == BufferOf(fn_input)
           found == memmem_find_slash(memory, fn_output.pos)
           it == scan_seed(memory, fn_output.pos)
       IN IF it.kind = "end"
          THEN /\ fn_pc' = "done"
               /\ UNCHANGED <<fn_output, fn_log>>
          ELSE /\ fn_output' = [pos |-> it.pos,
                                paths |-> IF it.kind = "path"
                                          THEN Append(fn_output.paths, <<it.path, <<>> >>)
                                          ELSE fn_output.paths]
               /\ fn_log' =
                      LET slash_pos == found.value + fn_output.pos
                          begin == extend_begin(memory, slash_pos)
                          reaches_end_loop == begin # slash_pos
                          end == extend_end(memory, slash_pos + 2)
                      IN Append(fn_log,
                                [slash_pos |-> slash_pos,
                                 kind |-> it.kind,
                                 from |-> fn_output.pos,
                                 reads |-> begin_reads(memory, slash_pos)
                                           \cup (IF reaches_end_loop
                                                 THEN end_reads(memory, slash_pos) ELSE {}),
                                 decoded |-> IF reaches_end_loop /\ end # slash_pos
                                             THEN Some([begin |-> begin, end |-> end])
                                             ELSE None])
               /\ UNCHANGED fn_pc
    /\ UNCHANGED <<fn_input, searcher_vars, progress_vars, path_cache, r_vars, main_vars,
                   search_vars, call_vars, validated>>

ScanNext == ScanSeed

SpecScan == ScanInit /\ [][ScanNext]_vars

\* no (accepted, 0) pair stands right before the seed at offset sp
NothingOnTheLeft(memory, sp) ==
    sp < 2 \/ ~accept_char(memory[sp - 1]) \/ memory[sp] # 0

\* no (accepted, 0) pair stands right behind the seed at offset sp
NothingOnTheRight(memory, sp) ==
    sp + 4 > Len(memory) \/ ~accept_char(memory[sp + 3]) \/ memory[sp + 4] # 0

\* C16: a seed at buffer offset 0 or at offset len - 2 gives no candidate, and
\* so does every seed with nothing to extend over on its left or on its
\* right: nothing is pushed for it.
C16_EdgeSeedsGiveNoCandidate ==
    \A k \in 1..Len(fn_log) :
        (\/ fn_log[k].slash_pos \in {0, Len(BufferOf(fn_input)) - 2}
         \/ NothingOnTheLeft(BufferOf(fn_input), fn_log[k].slash_pos)
         \/ NothingOnTheRight(BufferOf(fn_input), fn_log[k].slash_pos))
            => fn_log[k].kind = "continue"

\* C16 witness: the scan has met a seed at offset 0 with text on its right and
\* a seed at offset len - 2 with text on its left.
C16_Witness ==
    /\ fn_pc = "done"
    /\ Len(BufferOf(fn_input)) >= 8
    /\ \E k \in 1..Len(fn_log) : fn_log[k].slash_pos = 0
    /\ \E k \in 1..Len(fn_log) : fn_log[k].slash_pos = Len(BufferOf(fn_input)) - 2
    /\ accept_char(BufferOf(fn_input)[3])
    /\ accept_char(BufferOf(fn_input)[Len(BufferOf(fn_input)) - 3])

\* every byte fails accept_char
NoneAccepted(bytes) == \A i \in 1..Len(bytes) : ~accept_char(bytes[i])

\* C17: for a buffer made of bytes that fail the accept test, the UTF-16LE
\* encoding of a text of accepted characters that validate_path accepts and
\* that has a character before its first `/`, and bytes that fail the accept
\* test, search_memory gives exactly one candidate, and it is the text.
C17_PaddedTextIsTheOnlyCandidate ==
    (/\ fn_pc = "done"
     /\ fn_input \in [left : ScanLeftPads, text : ScanTexts, right : ScanRightPads]
     /\ NoneAccepted(fn_input.left) /\ NoneAccepted(fn_input.right)
     /\ \A i \in 1..Len(fn_input.text) : accept_char(fn_input.text[i])
     /\ validate_path(fn_input.text)
     /\ Len(fn_input.text) > 0 /\ fn_input.text[1] # 47)
        => fn_output.paths = << <<fn_input.text, <<>> >> >>

\* C17 witness: the scan of such a buffer, with an odd number of bytes before
\* a text that holds two `/`, has ended.
C17_Witness ==
    /\ fn_pc = "done"
    /\ fn_input \in [left : ScanLeftPads, text : ScanTexts, right : ScanRightPads]
    /\ fn_input.left = <<1>> /\ fn_input.right = <<0, 0>>
    /\ fn_input.text = <<97, 47, 97, 47, 97, 46, 97>>
    /\ fn_output.paths = << <<fn_input.text, <<>> >> >>

----------------------------------------------------------------------------
(* path_components.rs: PathComponents.  Offsets count from 0, as in the code;
   a range is [start, end) *)

Range_(start, end) == [start |-> start, end |-> end]

\* &s[a..b]
slice(s, a, b) == SubSeq(s, a + 1, b)

\* str::eq_ignore_ascii_case
eq_ignore_ascii_case(a, b) ==
    /\ Len(a) = Len(b)
    /\ \A i \in 1..Len(a) : to_ascii_lowercase(a[i]) = to_ascii_lowercase(b[i])

\* the white space str::trim removes, among the ASCII characters
is_whitespace(c) == c \in {9, 10, 11, 12, 13, 32}

\* str::trim
trim(s) ==
    LET keep == {i \in 1..Len(s) : ~is_whitespace(s[i])}
    IN IF keep = {} THEN <<>>
       ELSE SubSeq(s, CHOOSE i \in keep : \A j \in keep : i <= j,
                      CHOOSE i \in keep : \A j \in keep : i >= j)

\* s.replace('\\', "/")
replace_backslash(s) == [i \in 1..Len(s) |-> IF s[i] = 92 THEN 47 ELSE s[i]]

\* a normalisation that leaves the leading characters alone
strip_leading_nothing(s) == s

\* `while s.starts_with('@') || s.starts_with('/') { s.remove(0); }`
RECURSIVE strip_leading(_)
strip_leading(s) ==
    IF s # <<>> /\ s[1] \in {64, 47} THEN strip_leading(Tail(s)) ELSE s

\* String::replace_range(a..b, text)
replace_range(s, a, b, text) == slice(s, 0, a) \o text \o slice(s, b, Len(s))

\* starts_with_ignore_ascii_case
starts_with_ignore_ascii_case(s, prefix) ==
    Len(prefix) <= Len(s) /\ eq_ignore_ascii_case(slice(s, 0, Len(prefix)), prefix)

\* strip_prefix_ignore_ascii_case
strip_prefix_ignore_ascii_case(s, prefix) ==
    IF Len(prefix) > Len(s) THEN None
    ELSE IF eq_ignore_ascii_case(slice(s, 0, Len(prefix)), prefix)
         THEN Some(slice(s, Len(prefix), Len(s)))
         ELSE None

\* find_ignore_ascii_case
find_ignore_ascii_case(haystack, needle) ==
    IF needle = <<>> THEN Some(0)
    ELSE IF Len(needle) > Len(haystack) THEN None
    ELSE LET hits == {i \in 0..(Len(haystack) - Len(needle)) :
                         eq_ignore_ascii_case(slice(haystack, i, i + Len(needle)), needle)}
         IN IF hits = {} THEN None
            ELSE Some(CHOOSE i \in hits : \A j \in hits : i <= j)

\* last_segment_range: the segment behind the last `.` of s[..end], and the
\* offset of that `.`
last_segment_range(s, end) ==
    IF end > Len(s) THEN None
    ELSE LET dot == str_rfind(slice(s, 0, end), 46)
         IN IF ~dot.some THEN None
            ELSE Some([seg |-> Range_(dot.value + 1, end), dot |-> dot.value])

\* is_digits
is_digits(s) == s # <<>> /\ \A i \in 1..Len(s) : s[i] >= 48 /\ s[i] <= 57

\* is_platform_tag
is_platform_tag(s) ==
    eq_ignore_ascii_case(s, STM) \/ eq_ignore_ascii_case(s, NSW) \/ eq_ignore_ascii_case(s, MSG)

\* is_arch_tag
is_arch_tag(s) == eq_ignore_ascii_case(s, X64)

\* is_language_tag
is_language_tag(config, s) ==
    \E i \in 1..Len(config.languages) : eq_ignore_ascii_case(config.languages[i], s)

\* is_tag
is_tag(s, config) == is_language_tag(config, s) \/ is_platform_tag(s) \/ is_arch_tag(s)

\* classify_tag
classify_tag(config, s) ==
    IF is_platform_tag(s) THEN "Platform"
    ELSE IF is_arch_tag(s) THEN "Arch"
    ELSE IF is_language_tag(config, s) THEN "Language"
    ELSE "Unknown"

\* the first index of a non-empty set of indices
First(indices) == CHOOSE i \in indices : \A j \in indices : i <= j

\* the tail split of parse_raw_path_range: raw_end
raw_end_of(normalized_full, config) ==
    LET a == last_segment_range(normalized_full, Len(normalized_full))
    IN IF ~a.some THEN Len(normalized_full)
       ELSE LET seg_a_str == slice(normalized_full, a.value.seg.start, a.value.seg.end)
            IN IF is_digits(seg_a_str) THEN a.value.dot
               ELSE IF ~is_tag(seg_a_str, config) THEN Len(normalized_full)
               ELSE
               LET b == last_segment_range(normalized_full, a.value.dot)
               IN IF ~b.some THEN Len(normalized_full)
                  ELSE LET seg_b_str == slice(normalized_full, b.value.seg.start, b.value.seg.end)
                       IN IF is_digits(seg_b_str) THEN b.value.dot
                          ELSE IF ~is_tag(seg_b_str, config) THEN Len(normalized_full)
                          ELSE
                          LET c == last_segment_range(normalized_full, b.value.dot)
                          IN IF ~c.some THEN Len(normalized_full)
                             ELSE IF is_digits(slice(normalized_full, c.value.seg.start,
                                                     c.value.seg.end))
                                  THEN c.value.dot
                                  ELSE Len(normalized_full)

\* parse_raw_path_range
parse_raw_path_range(normalized_full, config) ==
    LET stripped == strip_leading(normalized_full)
        starting == {i \in 1..Len(config.prefixes) :
                        starts_with_ignore_ascii_case(stripped, config.prefixes[i])}
        raw_start_1 == IF starting = {} THEN 0 ELSE Len(config.prefixes[First(starting)])
        occurring == {i \in 1..Len(config.prefixes) :
                         find_ignore_ascii_case(stripped, config.prefixes[i]).some}
        drains == raw_start_1 = 0 /\ occurring # {}
        drained == IF drains
                   THEN slice(stripped,
                              find_ignore_ascii_case(stripped,
                                                     config.prefixes[First(occurring)]).value,
                              Len(stripped))
                   ELSE stripped
        raw_start_2 == IF drains THEN Len(config.prefixes[First(occurring)]) ELSE raw_start_1
        rest == strip_prefix_ignore_ascii_case(slice(drained, raw_start_2, Len(drained)),
                                               streaming_)
        raw_start == IF rest.some THEN Len(drained) - Len(rest.value) ELSE raw_start_2
        raw_end == raw_end_of(drained, config)
    IN [normalized_full |-> drained,
        raw_path |-> Range_(raw_start, IF raw_end < raw_start THEN raw_start ELSE raw_end)]

\* PathComponents::parse
parse(line, config) ==
    LET s == trim(line)
    IN IF s = <<>> \/ s[1] = 35 THEN None
       ELSE Some(parse_raw_path_range(replace_backslash(s), config))

\* PathComponents::recompute_raw_path_range
recompute_raw_path_range(self, config) == parse_raw_path_range(self.normalized_full, config)

\* PathComponents::raw_path
raw_path(self) == slice(self.normalized_full, self.raw_path.start, self.raw_path.end)

\* PathComponents::version_range
version_range(self) ==
    LET dot == self.raw_path.end
    IN IF dot >= Len(self.normalized_full) THEN None
       ELSE IF self.normalized_full[dot + 1] # 46 THEN None
       ELSE LET start == dot + 1
                rel == str_find(slice(self.normalized_full, start, Len(self.normalized_full)), Dot)
                end == IF rel.some THEN start + rel.value ELSE Len(self.normalized_full)
            IN IF is_digits(slice(self.normalized_full, start, end))
               THEN Some(Range_(start, end))
               ELSE None

\* PathComponents::tag_ranges_after_version, from offset i
RECURSIVE tag_ranges_from(_, _)
tag_ranges_from(bytes, i) ==
    IF i >= Len(bytes) THEN <<>>
    ELSE IF bytes[i + 1] # 46 THEN <<>>
    ELSE LET start == i + 1
             dots == {e \in start..(Len(bytes) - 1) : bytes[e + 1] = 46}
             end == IF dots = {} THEN Len(bytes) ELSE First(dots)
         IN (IF start < end THEN <<Range_(start, end)>> ELSE <<>>)
            \o tag_ranges_from(bytes, end)

\* PathComponents::tag_ranges_after_version
tag_ranges_after_version(self, vr) == tag_ranges_from(self.normalized_full, vr.end)

\* the loop of set_tag over the tags behind the version: the first tag of the
\* kind is replaced by new_value, further tags of the kind are dropped
RECURSIVE retag(_, _, _, _, _)
retag(config, tags, kind, new_value, replaced) ==
    IF tags = <<>> THEN [out |-> <<>>, replaced |-> replaced]
    ELSE IF classify_tag(config, Head(tags)) = kind
         THEN IF new_value.some /\ ~replaced
              THEN LET r == retag(config, Tail(tags), kind, new_value, TRUE)
                   IN [out |-> <<new_value.value>> \o r.out, replaced |-> r.replaced]
              ELSE retag(config, Tail(tags), kind, new_value, replaced)
         ELSE LET r == retag(config, Tail(tags), kind, new_value, replaced)
              IN [out |-> <<Head(tags)>> \o r.out, replaced |-> r.replaced]

\* `for t in out { rebuilt.push('.'); rebuilt.push_str(t) }`
RECURSIVE push_tags(_, _)
push_tags(rebuilt, out) ==
    IF out = <<>> THEN rebuilt ELSE push_tags(rebuilt \o Dot \o Head(out), Tail(out))

\* the outcome of a setter: the value it returns and the object it leaves
Outcome(ok, self) == [ok |-> ok, self |-> self]

\* PathComponents::set_tag
set_tag(self, config, kind, new_value) ==
    LET vr == version_range(self)
    IN IF ~vr.some THEN Outcome(FALSE, self)
       ELSE LET ranges == tag_ranges_after_version(self, vr.value)
                tags == [i \in 1..Len(ranges) |->
                            slice(self.normalized_full, ranges[i].start, ranges[i].end)]
                r == retag(config, tags, kind, new_value, FALSE)
                out == IF ~r.replaced /\ new_value.some
                       THEN r.out \o <<new_value.value>> ELSE r.out
                base == slice(self.normalized_full, 0, self.raw_path.end)
                version == slice(self.normalized_full, vr.value.start, vr.value.end)
                rebuilt == push_tags(base \o Dot \o version, out)
            IN Outcome(TRUE, parse_raw_path_range(rebuilt, config))

\* PathComponents::set_prefix_str
set_prefix_str(self, config, new_prefix) ==
    LET starting == {i \in 1..Len(config.prefixes) :
                        starts_with_ignore_ascii_case(self.normalized_full, config.prefixes[i])}
        old_len == IF starting = {} THEN 0 ELSE Len(config.prefixes[First(starting)])
        stripped == strip_leading(replace_backslash(new_prefix.value))
        normalized == IF stripped # <<>> /\ stripped[Len(stripped)] # 47
                      THEN stripped \o <<47>> ELSE stripped
        allowed == {i \in 1..Len(config.prefixes) :
                       eq_ignore_ascii_case(config.prefixes[i], normalized)}
    IN IF new_prefix.some /\ allowed = {} THEN Outcome(FALSE, self)
       ELSE LET canonical_new == IF new_prefix.some THEN config.prefixes[First(allowed)]
                                 ELSE <<>>
            IN Outcome(TRUE,
                       parse_raw_path_range(
                           replace_range(self.normalized_full, 0, old_len, canonical_new),
                           config))

\* PathComponents::set_raw_path_str
set_raw_path_str(self, config, new_raw_path) ==
    LET normalized == strip_leading(replace_backslash(new_raw_path))
    IN IF normalized = <<>> THEN Outcome(FALSE, self)
       ELSE Outcome(TRUE,
                    parse_raw_path_range(
                        replace_range(self.normalized_full, self.raw_path.start,
                                      self.raw_path.end, normalized),
                        config))

\* a set_version_str that appends the new version before it validates it
set_version_str_appending_first(self, config, new_version) ==
    Outcome(new_version # <<>> /\ \A i \in 1..Len(new_version) :
                                     new_version[i] >= 48 /\ new_version[i] <= 57,
            parse_raw_path_range(self.normalized_full \o Dot \o new_version, config))

\* PathComponents::set_version_str
set_version_str(self, config, new_version) ==
    IF new_version = <<>> \/ \E i \in 1..Len(new_version) :
                                 ~(new_version[i] >= 48 /\ new_version[i] <= 57)
    THEN Outcome(FALSE, self)
    ELSE LET old_range == version_range(self)
         IN IF old_range.some
            THEN Outcome(TRUE,
                         parse_raw_path_range(
                             replace_range(self.normalized_full, old_range.value.start,
                                           old_range.value.end, new_version),
                             config))
            ELSE Outcome(TRUE,
                         parse_raw_path_range(self.normalized_full \o Dot \o new_version,
                                              config))

\* PathComponents::set_version_u32
set_version_u32(self, config, version) == set_version_str(self, config, display_u32(version))

\* PathComponents::clear_version
clear_version(self, config) ==
    IF ~version_range(self).some THEN Outcome(FALSE, self)
    ELSE Outcome(TRUE,
                 parse_raw_path_range(slice(self.normalized_full, 0, self.raw_path.end),
                                      config))

\* PathComponents::set_platform_str
set_platform_str(self, config, new_platform) ==
    IF ~new_platform.some THEN set_tag(self, config, "Platform", None)
    ELSE IF eq_ignore_ascii_case(new_platform.value, STM)
         THEN set_tag(self, config, "Platform", Some(STM))
    ELSE IF eq_ignore_ascii_case(new_platform.value, NSW)
         THEN set_tag(self, config, "Platform", Some(NSW))
    ELSE IF eq_ignore_ascii_case(new_platform.value, MSG)
         THEN set_tag(self, config, "Platform", Some(MSG))
    ELSE Outcome(FALSE, self)

\* PathComponents::set_language_str
set_language_str(self, config, new_language) ==
    LET found == IF new_language.some
                 THEN {i \in 1..Len(config.languages) :
                          eq_ignore_ascii_case(config.languages[i], new_language.value)}
                 ELSE {}
    IN IF new_language.some /\ found = {} THEN Outcome(FALSE, self)
       ELSE set_tag(self, config, "Language",
                    IF new_language.some THEN Some(config.languages[First(found)]) ELSE None)

\* PathComponents::set_arch_str
set_arch_str(self, config, new_arch) ==
    IF ~new_arch.some THEN set_tag(self, config, "Arch", None)
    ELSE IF eq_ignore_ascii_case(new_arch.value, X64)
         THEN set_tag(self, config, "Arch", Some(X64))
    ELSE Outcome(FALSE, self)

\* PathComponents::version_str
version_str(self) ==
    LET vr == version_range(self)
    IN IF vr.some THEN Some(slice(self.normalized_full, vr.value.start, vr.value.end))
       ELSE None

\* PathComponents::tag_str
tag_str(self, config, kind) ==
    LET vr == version_range(self)
    IN IF ~vr.some THEN None
       ELSE LET ranges == tag_ranges_after_version(self, vr.value)
                of_kind == {i \in 1..Len(ranges) :
                               classify_tag(config,
                                            slice(self.normalized_full, ranges[i].start,
                                                  ranges[i].end)) = kind}
            IN IF of_kind = {} THEN None
               ELSE Some(slice(self.normalized_full, ranges[First(of_kind)].start,
                               ranges[First(of_kind)].end))

----------------------------------------------------------------------------
(* PathComponents driven as an object: a line is parsed, then setters are
   called on the parsed path *)

\* setter calls at most on one parsed path
MaxSetterCalls == 2

PartsConfigs ==
    { [languages |-> <<Ja, En>>, prefixes |-> <<natives_STM, natives_NSW>>,
       suffix_map |-> SuffixMap] }

\* the lines handed to PathComponents::parse
PartsLines ==
    { <<110, 97, 116, 105, 118, 101, 115, 47, 83, 84, 77, 47, 97, 46, 116, 101, 120, 46, 51>>,
          \* "natives/STM/a.tex.3"
      <<110, 97, 116, 105, 118, 101, 115, 47, 83, 84, 77, 47, 115, 116, 114, 101, 97, 109,
        105, 110, 103, 47, 97, 46, 116, 101, 120, 46, 51, 46, 88, 54, 52, 46, 69, 110>>,
          \* "natives/STM/streaming/a.tex.3.X64.En"
      <<64, 47, 110, 97, 116, 105, 118, 101, 115, 92, 83, 84, 77, 92, 97, 46, 116, 101, 120,
        46, 51, 46, 115, 116, 109>>,
          \* "@/natives\STM\a.tex.3.stm"
      <<120, 47, 110, 97, 116, 105, 118, 101, 115, 47, 115, 116, 109, 47, 97, 46, 116, 101,
        120>>,
          \* "x/natives/stm/a.tex"
      <<97, 46, 116, 101, 120>>,                                    \* "a.tex"
      <<97, 46, 116, 101, 120, 46, 49, 46, 50>>,                    \* "a.tex.1.2"
      <<46, 49>>,                                                   \* ".1"
      natives_STM,                                                  \* "natives/STM/"
      <<35, 32, 99>>,                                               \* "# c"
      <<>>,                                                         \* ""
      <<32, 97, 46, 116, 101, 120, 46, 51, 32>>,                    \* " a.tex.3 "
      <<64, 32, 97, 46, 116, 101, 120>>,                            \* "@ a.tex"
      <<64, 110, 97, 116, 105, 118, 101, 115, 92, 83, 84, 77, 92, 120, 92, 121, 46, 117, 115,
        101, 114, 46, 51, 46, 106, 97>>,
          \* "@natives\STM\x\y.user.3.ja"
      <<47, 92, 64, 92, 97, 46, 116, 101, 120, 46, 51>>,            \* "/\@\a.tex.3"
      <<97, 46, 116, 101, 120, 46, 51, 46, 69, 110, 46, 74, 97, 46, 88, 54, 52>> }
          \* "a.tex.3.En.Ja.X64"

\* the arguments handed to set_prefix_str
PrefixArgs ==
    { None,
      Some(<<92, 110, 97, 116, 105, 118, 101, 115, 92, 110, 115, 119>>),  \* "\natives\nsw"
      Some(<<120, 47>>) }                                                 \* "x/"

\* the arguments handed to set_raw_path_str
RawPathArgs ==
    { <<99, 47, 100, 46, 117, 115, 101, 114>>,              \* "c/d.user"
      <<64, 92, 99, 92, 100, 46, 117, 115, 101, 114>>,      \* "@\c\d.user"
      <<99, 46, 55>>,                                       \* "c.7"
      <<35, 120>>,                                          \* "#x"
      <<>> }                                                \* ""

\* the arguments handed to set_version_str
VersionArgs == { <<55>>, <<120>>, <<>> }                    \* "7", "x", ""

\* the arguments handed to set_platform_str
PlatformArgs == { None, Some(<<110, 115, 119>>), Some(<<122, 122>>) }   \* "nsw", "zz"

\* the arguments handed to set_language_str
LanguageArgs == { None, Some(<<101, 110>>), Some(<<122, 122>>) }        \* "en", "zz"

\* the arguments handed to set_arch_str
ArchArgs == { None, Some(<<120, 54, 52>>), Some(<<121>>) }              \* "x64", "y"

PartsInit ==
    /\ SearcherOffWith(PartsConfigs)
    /\ fn_pc = "call"
    /\ fn_input \in PartsLines
    /\ fn_output = None
    /\ fn_log = <<>>

\* `PathComponents::parse(line, config)`
PartsParse ==
    /\ fn_pc = "call"
    /\ fn_output' = parse(fn_input, searcher_config)
    /\ fn_pc' = IF fn_output'.some THEN "parsed" ELSE "none"
    /\ UNCHANGED <<fn_input, fn_log, searcher_vars, progress_vars, path_cache, r_vars, main_vars,
                   search_vars, call_vars, validated>>

\* a setter called on the parsed path: the object is left as the setter
\* leaves it, and the call, its argument and its return value are logged
PartsSet(op, arg, outcome) ==
    /\ fn_pc = "parsed"
    /\ Len(fn_log) < MaxSetterCalls
    /\ fn_output' = Some(outcome.self)
    /\ fn_log' = Append(fn_log, [op |-> op, arg |-> arg, ok |-> outcome.ok])
    /\ UNCHANGED <<fn_pc, fn_input, searcher_vars, progress_vars, path_cache, r_vars, main_vars,
                   search_vars, call_vars, validated>>

PartsSetPrefix ==
    \E arg \in PrefixArgs :
        PartsSet("set_prefix_str", arg, set_prefix_str(fn_output.value, searcher_config, arg))

PartsSetRawPath ==
    \E arg \in RawPathArgs :
        PartsSet("set_raw_path_str", Some(arg),
                 set_raw_path_str(fn_output.value, searcher_config, arg))

PartsSetVersionStr ==
    \E arg \in VersionArgs :
        PartsSet("set_version_str", Some(arg),
                 set_version_str(fn_output.value, searcher_config, arg))

PartsSetVersionU32 ==
    \E arg \in {12} :
        PartsSet("set_version_u32", Some(display_u32(arg)),
                 set_version_u32(fn_output.value, searcher_config, arg))

PartsClearVersion ==
    PartsSet("clear_version", None, clear_version(fn_output.value, searcher_config))

PartsSetPlatform ==
    \E arg \in PlatformArgs :
        PartsSet("set_platform_str", arg,
                 set_platform_str(fn_output.value, searcher_config, arg))

PartsSetLanguage ==
    \E arg \in LanguageArgs :
        PartsSet("set_language_str", arg,
                 set_language_str(fn_output.value, searcher_config, arg))

PartsSetArch ==
    \E arg \in ArchArgs :
        PartsSet("set_arch_str", arg, set_arch_str(fn_output.value, searcher_config, arg))

PartsNext ==
    \/ PartsParse
    \/ PartsSetPrefix
    \/ PartsSetRawPath
    \/ PartsSetVersionStr
    \/ PartsSetVersionU32
    \/ PartsClearVersion
    \/ PartsSetPlatform
    \/ PartsSetLanguage
    \/ PartsSetArch

SpecParts == PartsInit /\ [][PartsNext]_vars

\* a path is held: parse returned one, and setters may have been called on it
PathHeld == fn_pc = "parsed"

\* the last setter call on the path held, if any, returned true
LastSetterSucceeded == fn_log # <<>> /\ fn_log[Len(fn_log)].ok

\* C18: after any successful setter call on a parsed path p, parse applied to
\* p.normalized_full_path() yields the same normalized_full, the same raw-path
\* range, and the same version and tags as p holds.
C18_ReparseAfterSetterIsIdentity ==
    (PathHeld /\ LastSetterSucceeded) =>
        LET p == fn_output.value
            again == parse(p.normalized_full, searcher_config)
        IN /\ again.some
           /\ again.value.normalized_full = p.normalized_full
           /\ again.value.raw_path = p.raw_path
           /\ version_str(again.value) = version_str(p)
           /\ \A kind \in {"Platform", "Language", "Arch"} :
                  tag_str(again.value, searcher_config, kind) = tag_str(p, searcher_config, kind)

\* a text holds the character c
Holds(text, c) == \E i \in 1..Len(text) : text[i] = c

\* C19: after PathComponents::parse and after any sequence of setter calls,
\* normalized_full contains no `\` character and does not begin with `@` or `/`.
C19_NormalizedFullIsNormalized ==
    PathHeld =>
        /\ ~Holds(fn_output.value.normalized_full, 92)
        /\ fn_output.value.normalized_full # <<>> =>
               fn_output.value.normalized_full[1] \notin {64, 47}

\* a line that begins with `@` and holds a `\` was parsed, and a setter handed
\* an argument that begins with `@` and holds a `\` has succeeded on the path
C19_Witness ==
    /\ PathHeld
    /\ fn_input[1] = 64 /\ Holds(fn_input, 92)
    /\ \E i \in 1..Len(fn_log) :
           /\ fn_log[i].ok
           /\ fn_log[i].arg.some
           /\ fn_log[i].arg.value # <<>>
           /\ fn_log[i].arg.value[1] = 64
           /\ Holds(fn_log[i].arg.value, 92)

\* C20: for every parsed path, after parse and after every successful setter
\* call, the raw_path range is non-empty and raw_path() does not end in a
\* `.`-delimited chunk consisting only of ASCII digits.
C20_RawPathNonEmptyWithoutVersionTail ==
    (PathHeld /\ (fn_log = <<>> \/ LastSetterSucceeded)) =>
        LET p == fn_output.value
            last_dot == str_rfind(raw_path(p), 46)
        IN /\ p.raw_path.start < p.raw_path.end
           /\ last_dot.some =>
                  ~is_digits(slice(raw_path(p), last_dot.value + 1, Len(raw_path(p))))

\* the last setter call on the path held returned false
LastSetterFailed == fn_log # <<>> /\ ~fn_log[Len(fn_log)].ok

\* C21: a setter that returns false (set_version_str with empty or non-digit
\* text, set_language_str with a language not in the config, set_platform_str
\* or set_arch_str with an unrecognised value, set_prefix_str with a prefix not
\* in the config, set_raw_path_str with an empty path, any tag setter or
\* clear_version on a path without a version) leaves normalized_full and the
\* raw-path range exactly as they were before the call.
C21_FailedSetterLeavesPath ==
    [][(Len(fn_log') = Len(fn_log) + 1 /\ ~fn_log'[Len(fn_log')].ok) =>
           /\ fn_output'.value.normalized_full = fn_output.value.normalized_full
           /\ fn_output'.value.raw_path = fn_output.value.raw_path]_vars

\* two setters have been called on a parsed path and both have returned false
C21_Witness ==
    /\ PathHeld
    /\ Len(fn_log) = 2
    /\ ~fn_log[1].ok /\ ~fn_log[2].ok
    /\ fn_log[1].op # fn_log[2].op

\* PathComponents::has_version
has_version(self) == version_range(self).some

\* PathComponents::platform
platform(self, config) == tag_str(self, config, "Platform")

\* PathComponents::language
language(self, config) == tag_str(self, config, "Language")

\* PathComponents::arch
arch(self, config) == tag_str(self, config, "Arch")

\* the kind of tag a tag setter writes
KindOf(op) ==
    IF op = "set_platform_str" THEN "Platform"
    ELSE IF op = "set_language_str" THEN "Language"
    ELSE "Arch"

\* the canonical spellings of the tags of a kind
CanonicalTags(config, kind) ==
    IF kind = "Platform" THEN {STM, NSW, MSG}
    ELSE IF kind = "Arch" THEN {X64}
    ELSE {config.languages[i] : i \in 1..Len(config.languages)}

TagSetters == {"set_platform_str", "set_language_str", "set_arch_str"}

VersionSetters == {"set_version_str", "set_version_u32"}

\* the step is a setter call that returned true
SetterSucceeds == Len(fn_log') = Len(fn_log) + 1 /\ fn_log'[Len(fn_log')].ok

\* C22: for every parsed path and after any preceding sequence of setter
\* calls, a successful set_version_str(v), set_platform_str(Some(x)),
\* set_language_str(Some(x)) or set_arch_str(Some(x)) makes the corresponding
\* getter return that value in its canonical spelling, and a successful
\* set_*_str(None) makes the corresponding tag getter return None while the
\* tags of the other kinds keep being reported.
C22_GetterReturnsWhatWasSet ==
    [][SetterSucceeds =>
           LET call == fn_log'[Len(fn_log')]
               before == fn_output.value
               after == fn_output'.value
           IN /\ call.op = "set_version_str" => version_str(after) = call.arg
              /\ (call.op \in TagSetters /\ call.arg.some) =>
                     LET got == tag_str(after, searcher_config, KindOf(call.op))
                     IN /\ got.some
                        /\ got.value \in CanonicalTags(searcher_config, KindOf(call.op))
                        /\ eq_ignore_ascii_case(got.value, call.arg.value)
              /\ (call.op \in TagSetters /\ ~call.arg.some) =>
                     /\ tag_str(after, searcher_config, KindOf(call.op)) = None
                     /\ \A kind \in {"Platform", "Language", "Arch"} \ {KindOf(call.op)} :
                            tag_str(after, searcher_config, kind)
                                = tag_str(before, searcher_config, kind)]_vars

\* PathComponents::prefix
prefix(self, config) ==
    LET starting == {i \in 1..Len(config.prefixes) :
                        starts_with_ignore_ascii_case(self.normalized_full, config.prefixes[i])}
    IN IF starting = {} THEN None
       ELSE Some(slice(self.normalized_full, 0, Len(config.prefixes[First(starting)])))

\* C23: successful version and tag setters (set_version_str, set_version_u32,
\* set_platform_str, set_language_str, set_arch_str) leave raw_path() and the
\* leading prefix unchanged: only the text after the raw path changes.
C23_VersionAndTagSettersKeepRawPath ==
    [][(SetterSucceeds /\ fn_log'[Len(fn_log')].op \in VersionSetters \cup TagSetters) =>
           LET before == fn_output.value
               after == fn_output'.value
           IN /\ raw_path(after) = raw_path(before)
              /\ prefix(after, searcher_config) = prefix(before, searcher_config)
              /\ slice(after.normalized_full, 0, after.raw_path.end)
                     = slice(before.normalized_full, 0, before.raw_path.end)]_vars

\* C24: when clear_version returns true, the normalized full path is cut back
\* to prefix + raw path: afterwards version_str() is None, has_version() is
\* false, and platform(), language() and arch() are all None; raw_path() is
\* the same as before the call.
C24_ClearVersionLeavesPrefixAndRawPath ==
    [][(SetterSucceeds /\ fn_log'[Len(fn_log')].op = "clear_version") =>
           LET before == fn_output.value
               after == fn_output'.value
           IN /\ after.normalized_full
                     = slice(before.normalized_full, 0, before.raw_path.end)
              /\ version_str(after) = None
              /\ ~has_version(after)
              /\ platform(after, searcher_config) = None
              /\ language(after, searcher_config) = None
              /\ arch(after, searcher_config) = None
              /\ raw_path(after) = raw_path(before)]_vars

\* str::ends_with
ends_with(s, suffix) ==
    Len(suffix) <= Len(s) /\ SubSeq(s, Len(s) - Len(suffix) + 1, Len(s)) = suffix

\* C25: parsing a known-text path canonicalizes the spelling of its recognized
\* trailing tags to the config-stored form: a line ending in `.3.ja` (after
\* separator normalization and stripping of the leading `@`) has
\* normalized_full ending in `.3.Ja`, and language() returns `Ja`.
C25_ParseCanonicalizesTags ==
    (PathHeld /\ fn_log = <<>>) =>
        LET p == fn_output.value
        IN /\ \A kind \in {"Platform", "Language", "Arch"} :
                  tag_str(p, searcher_config, kind).some =>
                      tag_str(p, searcher_config, kind).value
                          \in CanonicalTags(searcher_config, kind)
           /\ ends_with(replace_backslash(trim(fn_input)), <<46, 51, 46, 106, 97>>) =>
                  /\ ends_with(p.normalized_full, <<46, 51, 46, 74, 97>>)
                  /\ language(p, searcher_config) = Some(Ja)

\* run() has returned, with the output files written or with an error
RunEnded == main_pc \in {"done", "failed"}

\* the dump files of the command line that cannot be opened or that have no
\* full-memory stream
FaultyDumps == {i \in 1..Len(app_dmp) : ~read_memory(app_dmp[i]).ok}

\* C26: a memory dump that cannot be opened or that has no full-memory stream
\* is fatal to that dump only: the run goes on to the remaining dumps, the
\* archive scan and the reference lists, and the three output files are still
\* written with the results of the other sources.
C26_DumpFailureIsFatalToThatDumpOnly ==
    (RunEnded /\ FaultyDumps # {}) =>
        /\ exported.some
        /\ Len(returned) = (Len(app_dmp) - Cardinality(FaultyDumps))
                           + (IF pak_file_count(pak_collection) # 0 THEN 1 ELSE 0)

\* the searches that have returned: search k is that of dump k, and the
\* search after the last dump is that of the archives
ReturnedSearches == 1..Len(returned)

\* the pieces of a dump that start a memory block: those that do not begin
\* where another piece of the dump ends
BlockStarts(pieces) ==
    {i \in 1..Len(pieces) :
        \A j \in 1..Len(pieces) :
            pieces[j].base_address + Len(pieces[j].bytes) # pieces[i].base_address}

\* the distinct hashes of the entries of all archives
CanonicalEntries(readers) ==
    UNION {{readers[a][e].hash : e \in 1..Len(readers[a])} : a \in 1..Len(readers)}

\* the number of blocks or of canonical entries search k has to complete
TotalOfSearch(k) ==
    IF k <= Len(app_dmp) THEN Cardinality(BlockStarts(app_dmp[k].memory64.value))
    ELSE Cardinality(CanonicalEntries(pak_files(pak_collection.value)))

----------------------------------------------------------------------------
(* The result of a search whose blocks or entries are scanned one after the
   other *)

RECURSIVE Concat(_)
Concat(seqs) == IF seqs = <<>> THEN <<>> ELSE Head(seqs) \o Concat(Tail(seqs))

\* the bytes of the entries of one archive (number index, from 0) that a
\* sequential extraction scans, in entry order: the first entry of each hash
\* the archive is allowed to scan
RECURSIVE ScannedOf(_, _, _, _)
ScannedOf(pak, index, e, seen) ==
    LET entries == pak_files(pak)[index + 1]
    IN IF e > Len(entries) THEN <<>>
       ELSE IF entries[e].hash \in allowed_hashes(pak, index) \ seen
            THEN <<entries[e].data>> \o ScannedOf(pak, index, e + 1, seen \cup {entries[e].hash})
            ELSE ScannedOf(pak, index, e + 1, seen)

\* the buffers of the first search of the run, in sequential order: the
\* coalesced blocks of the first dump or, without dumps, the scanned entries
\* of the archives
FirstSearchBuffers ==
    IF app_dmp # <<>>
    THEN LET memory_blocks == memory_blocks_of(app_dmp[1].memory64.value)
         IN [i \in 1..Len(memory_blocks) |-> memory_blocks[i].data]
    ELSE Concat([a \in 1..Len(pak_files(pak_collection.value)) |->
                    ScannedOf(pak_collection.value, a - 1, 1, {})])

\* the candidates of one buffer that pass validate_path, in scan order
CandidatesOf(data) ==
    IF should_skip_file(filter, data) THEN <<>>
    ELSE RawPathsOf(search_memory_no_pak(data, 0))

\* what a sequential run returns for buffers scanned in order with a cache
\* that is empty at the start: a candidate gets the list find_path_i18n
\* returns for it, at every occurrence (from the call or from the cache
\* entry the call left), and it is unknown when find_path_i18n fails
SequentialResult(buffers) ==
    LET candidates == Concat([b \in 1..Len(buffers) |-> CandidatesOf(buffers[b])])
        resolved(path) == find_path_i18n(pak_collection.value, searcher_config,
                                         cargo_features, path)
        emitted(path) == ~pak_collection.some \/ resolved(path).ok
        kept == SelectSeq(candidates, emitted)
        entries == [i \in 1..Len(kept) |->
                       <<kept[i], IF pak_collection.some THEN resolved(kept[i]).list ELSE <<>> >>]
    IN SearchResult(dedup_by(sort_by(entries)),
                    IF pak_collection.some
                    THEN {candidates[i] : i \in {j \in 1..Len(candidates) : ~emitted(candidates[j])}}
                    ELSE {})

\* C28: for every interleaving of the workers of one search call started with
\* an empty cache, the returned SearchResult is the same as that of a
\* sequential run: the same set of raw paths in found_paths, each with the
\* same match list, and the same unknown_paths set.
C28_ResultIsThatOfASequentialRun ==
    Len(returned) >= 1 => returned[1] = SequentialResult(FirstSearchBuffers)

\* the first search has returned a raw path that two of its workers resolved
\* (both missed the empty cache), and it returned more than one raw path
C28_Witness ==
    /\ Len(returned) = 1
    /\ Len(returned[1].found_paths) >= 2
    /\ \E path \in DOMAIN resolve_calls : resolve_calls[path] >= 2

----------------------------------------------------------------------------
(* Properties of the seed loop of search_memory *)

\* C29: search_memory terminates on every finite buffer: the seek cursor pos
\* strictly increases on every iteration of the seed loop (also for abandoned
\* seeds, decode failures and rejected candidates) and never exceeds the
\* buffer length.
C29_CursorStrictlyIncreases ==
    [][Len(fn_log') = Len(fn_log) + 1 =>
           /\ fn_output'.pos > fn_output.pos
           /\ fn_output'.pos <= Len(BufferOf(fn_input))]_vars

\* the scan of a buffer has ended after an abandoned seed, a rejected
\* candidate and an emitted one
C29_Witness ==
    /\ fn_pc = "done"
    /\ \E k \in 1..Len(fn_log) : fn_log[k].kind = "continue" /\ ~fn_log[k].decoded.some
    /\ \E k \in 1..Len(fn_log) : fn_log[k].kind = "continue" /\ fn_log[k].decoded.some
    /\ \E k \in 1..Len(fn_log) : fn_log[k].kind = "path"

\* the slices of the seeds that gave a candidate, in the order of the seeds
EmittedSlices ==
    LET emitted(entry) == entry.kind = "path"
        kept == SelectSeq(fn_log, emitted)
    IN [k \in 1..Len(kept) |-> kept[k].decoded.value]

\* C30: for every buffer (any length, including empty, odd-length, and seeds
\* at odd offsets) every index used by search_memory is in bounds, and
\* whenever a slice is decoded it satisfies begin < slash_pos < end <= len
\* with end - begin even; candidates emitted by one scan cover pairwise
\* disjoint byte ranges in increasing offset order.
C30_IndicesInBoundsAndSlicesDisjoint ==
    LET len == Len(BufferOf(fn_input))
    IN /\ fn_output.pos \in 0..len
       /\ \A k \in 1..Len(fn_log) :
              /\ fn_log[k].from \in 0..len
              /\ fn_log[k].reads \subseteq 0..(len - 1)
              /\ fn_log[k].decoded.some =>
                     /\ fn_log[k].decoded.value.begin >= 0
                     /\ fn_log[k].decoded.value.begin < fn_log[k].slash_pos
                     /\ fn_log[k].slash_pos < fn_log[k].decoded.value.end
                     /\ fn_log[k].decoded.value.end <= len
                     /\ (fn_log[k].decoded.value.end - fn_log[k].decoded.value.begin) % 2 = 0
       /\ \A k \in 1..(Len(EmittedSlices) - 1) :
              EmittedSlices[k].end <= EmittedSlices[k + 1].begin

\* the scan of a buffer of odd length has ended with two emitted candidates,
\* the second at an odd offset
C30_Witness ==
    /\ fn_pc = "done"
    /\ Len(BufferOf(fn_input)) % 2 = 1
    /\ Len(EmittedSlices) = 2
    /\ EmittedSlices[2].begin % 2 = 1

====
